---- MODULE Spec2Model ----
(***************************************************************************)
(* Model of the feed-pull engine of fusion (package service/pull) and of   *)
(* its configuration loader (package conf).                                *)
(*                                                                         *)
(* These state machines share this module:                                 *)
(*   SpecFeeds  the batch scheduler PullFeeds (pull.go) run over an        *)
(*              arbitrary per-feed function pullFeed, as TestPullFeeds     *)
(*              drives it: dispatcher goroutine, one worker goroutine per  *)
(*              feed, the slot channel routinePool, the WaitGroup wg, the  *)
(*              mutex mu and the error list errs.                          *)
(*   Spec       the per-feed pull: PullOne / do / SingleFeedPuller.Pull /  *)
(*              updateFeedInStore acting on the feed and item stores.      *)
(*   SpecAll    the sweep: PullAll listing the store and running PullFeeds *)
(*              with p.do as the per-feed function, one pull task per      *)
(*              worker.                                                    *)
(*   SpecPair   a worker of a sweep and a refresh request pulling side by  *)
(*              side, each with the context its caller passes.             *)
(*   SpecTimed  the sweep with time passing and the contexts' deadlines    *)
(*              ending the fetches.                                        *)
(*   SpecRun    the loop of Run: the ticker, the calls of PullAll and      *)
(*              their returns (SpecRunFair adds the scheduling).           *)
(*   SpecLoop   Run driving real sweeps of one healthy feed while the      *)
(*              clock advances (SpecLoopFair adds the scheduling).         *)
(*   SpecExpired  the sweep whose context ends while it still dispatches.  *)
(*   SpecFeedsFair  SpecFeeds with every enabled step eventually taken.    *)
(*   SpecConf   conf.Load: the environment, env.Parse, validate.           *)
(***************************************************************************)
EXTENDS Integers, Sequences, FiniteSets, TLC

\* ------------------------------------------------------------ bounds
MaxFeeds == 3     \* feeds handed to one PullFeeds call
MaxItems == 2     \* items one fetch returns
MaxTicks == 3     \* clock steps of interval / 2 the model lets pass
MaxListed == 2    \* feeds in the store when PullAll lists them
MaxSweeps == 3    \* PullAll calls one Run makes in the model
MaxFires == 3     \* times the ticker of Run fires in the model

\* pull.go:16: var interval = 30 * time.Minute (the model counts minutes).
interval == 30

\* pull.go:75: the worker budget PullAll hands to PullFeeds.
sweepWorkers == 10

\* ------------------------------------------------------------ values
Nil == "nil"
errOne == "fetch failed"
errTwo == "update failed"
PullErrors == {errOne, errTwo}

Range(s) == {s[i] : i \in DOMAIN s}

\* A nil pointer field of model.Feed, a nil *time.Time.
NULL == "NULL"

\* The feeds of the store, by ID, and the tasks that pull them.
FeedIDs == {42}
Tasks == {"task"}

\* Errors, represented by their messages (error.Error()).
FetchErrors == {"got status code 404", "context deadline exceeded"}
dbError == "dummy database error"
notFound == "not found"

\* Feed-level build times a fetch can report, and the one a record starts with.
oldBuild == "2024-12-31T12:00:00Z"
newBuild == "2025-01-01T12:00:00Z"

VARIABLES
    \* inputs of PullFeeds
    feeds,        \* []*model.Feed: the sequence of feed IDs
    force,        \* bool
    maxWorkers,   \* int, as passed by the caller
    pullFeed,     \* the per-feed function: feed ID -> Nil or an error
    \* the dispatcher (the goroutine that called PullFeeds)
    pc,           \* "start", "loop", "wait", "return", "returned"
    idx,          \* position of the range loop in feeds
    poolCap,      \* cap(routinePool)
    poolLen,      \* len(routinePool)
    poolClosed,   \* routinePool was closed (deferred close)
    wg,           \* sync.WaitGroup counter
    mu,           \* sync.Mutex: 0 when free, else the worker holding it
    errs,         \* []FeedPullError
    result,       \* what PullFeeds returned
    \* the workers, one per position of feeds
    wpc,          \* worker -> its position in the goroutine body
    werr,         \* worker -> the err of its pullFeed call
    calls,        \* feed ID -> the force flags of the pullFeed invocations
                  \* started for it, one entry per invocation
    \* the stores and the clock
    feedStore,    \* feed ID -> the feed row (model.Feed)
    itemStore,    \* the item rows, as a set of [GUID, FeedID]
    now,          \* time.Now(), in minutes
    \* the per-feed pull tasks (PullOne, or do as a PullFeeds worker calls it)
    tpc,          \* task -> "idle", "get", "decide", "read", "store",
                  \*         "success", "done", "panic"
    targ,         \* task -> [id, force, entry] of the current call
    tfeed,        \* task -> the *model.Feed the task works on
    tread,        \* task -> the fetch outcome [err, Items, LastBuild], or NULL
    tlog,         \* task -> the storage calls the current call has made
    tret,         \* task -> the error the call returned (Nil for nil)
    tdec,         \* task -> what DecideFeedUpdateAction returned to do
    tctx,         \* task -> the contexts of its call: the caller's, and the
                  \* one do derives from it for Pull and the fetch
    cancelled,    \* the callers' contexts that have been cancelled
    \* PullAll
    apc,          \* "idle", "list", "pull", "returned"
    actx,         \* the context PullAll derived for its sweep
    alist,        \* what feedRepo.List returned to PullAll
    aret,         \* the error PullAll returned (Nil for nil)
    \* Run
    rpc,          \* "idle", "start", "sweep", "wait", "exited"
    tickerC,      \* ticker.C: the ticks sent and not yet received
    fires,        \* the number of times the ticker has fired
    rsweeps,      \* the PullAll calls of Run, in order: the tick that
                  \* started each, the ticks fired before its start and
                  \* before its return, and its outcome
    \* conf.Load
    environ,      \* the process environment: variable name -> value or Unset
    lpc,          \* "idle", "start", "parse", "validate", "return",
                  \* "returned", "panic"
    conf,         \* the local variable conf of Load
    vconf,        \* the parameter conf of validate, as validate left it
    verr,         \* the error validate returned (Nil for nil)
    cret          \* the Conf value Load returned

schedVars == <<feeds, force, maxWorkers, pullFeed, pc, idx, poolCap, poolLen,
               poolClosed, wg, mu, errs, result, wpc, werr, calls>>

pullVars == <<feedStore, itemStore, now, tpc, targ, tfeed, tread, tlog, tret,
              tdec>>

allVars == <<apc, actx, alist, aret>>

ctxVars == <<tctx, cancelled>>

runVars == <<rpc, tickerC, fires, rsweeps>>

confVars == <<environ, lpc, conf, vconf, verr, cret>>

vars == <<schedVars, pullVars, allVars, ctxVars, runVars, confVars>>

\* ------------------------------------------------------------ PullFeeds

\* pull.go:93-95: a non-positive maxWorkers becomes 1.
WorkersNoClamp(m) == m
Workers(m) == IF m <= 0 THEN 1 ELSE m

\* pull.go:107: a send on the buffered channel proceeds only below capacity.
CanSendAlways(len, cap) == TRUE
CanSend(len, cap) == len < cap

\* pull.go:115: the error a worker holds after its pullFeed call returned.
\* (f is the worker's own parameter, pull.go:109/123.)
ResultOf(fn, fs, w) == fn[fs[w]]

\* pull.go:117-120: the appended entry pairs the worker's feed with its error.
EntryLoopVar(f, e) == [Feed |-> feeds[Len(feeds)], Err |-> e]
Entry(f, e) == [Feed |-> f, Err |-> e]

\* pull.go:106: the range loop visits every element of feeds, whatever the
\* workers have reported so far.
MoreFeedsUntilDone(i, fs) == i <= Len(fs) /\ now * 60 < actx.deadline
MoreFeedsUntilError(i, fs) == i <= Len(fs) /\ errs = <<>>
MoreFeeds(i, fs) == i <= Len(fs)

\* pull.go:112: <-routinePool takes one buffered value out of the channel
\* (none is left to take on a closed, drained channel).
SlotKept(len) == len
SlotFreed(len) == IF len > 0 THEN len - 1 ELSE 0

\* pull.go:125: wg.Wait() blocks until the counter is back to zero.
WaitNoBarrier(counter) == TRUE
WaitDone(counter) == counter = 0

\* pull.go:116: mu.Lock() proceeds only while no goroutine holds the mutex.
MutexFreeAlways(m) == TRUE
MutexFree(m) == m = 0

WorkerIds == 1..Len(feeds)

\* The per-feed functions handed to PullFeeds: as in TestPullFeeds, a
\* function of the feed's ID that returns nil or that feed's error; feeds
\* next to each other fail with different errors.
ErrorOfFeed(id) == IF id % 2 = 1 THEN errOne ELSE errTwo
PullFeedFns(n) ==
    {fn \in [1..n -> {Nil} \cup PullErrors] :
        \A id \in 1..n : fn[id] \in {Nil, ErrorOfFeed(id)}}

\* ------------------------------------------------------------ feeds and stores

\* A model.Feed whose pointer fields are all nil: the value of tfeed while a
\* task holds no feed.
NoFeed == [ID |-> 0, Link |-> NULL, LastBuild |-> NULL, Failure |-> NULL,
           Suspended |-> NULL, UpdatedAt |-> 0]

\* The value of targ and tread while a task is not in a call / has not read.
NoCall == [id |-> 0, force |-> FALSE, entry |-> "none"]
NoRead == [called |-> FALSE, err |-> Nil, Items |-> <<>>, LastBuild |-> NULL]

\* Times: the clock counts minutes, context deadlines are in seconds.
Sec(m) == m * 60
Min(a, b) == IF a <= b THEN a ELSE b

\* context.Background(): no deadline, no cancel function.
NoDeadline == 1000000
Background == [deadline |-> NoDeadline, sources |-> {}]

\* context.WithTimeout(parent, d) made at time t (in seconds) by owner: a
\* child of parent. Its deadline is the earlier of the parent's and t + d;
\* it is done when that deadline has passed, when its own cancel function
\* was called, or when parent is done.
WithTimeoutDetached(parent, d, t, owner) ==
    [deadline |-> t + d, sources |-> {owner}]
WithTimeout(parent, d, t, owner) ==
    [deadline |-> Min(parent.deadline, t + d),
     sources |-> parent.sources \cup {owner}]

\* part_004:149: the timeout of one feed's pull, in seconds.
doTimeout == 30

\* The contexts of a task that is in no call.
NoCtx == [caller |-> Background, fetch |-> Background]

\* The value of tdec while the current call has not decided.
NoDecision == <<"none", NULL>>

\* The value of alist while List has not returned.
NoList == [called |-> FALSE, err |-> Nil, n |-> 0]

\* conf.go:13,17-24: the environment variables Load reads, and a variable
\* that is not set.
EnvNames == {"HOST", "PASSWORD", "SECURE_COOKIE", "TLS_CERT", "TLS_KEY"}
Unset == "<unset>"
NoEnv == [k \in EnvNames |-> Unset]

\* conf.go:15-25: the zero value of Conf.
NoConf == [Debug |-> FALSE, Host |-> "", Password |-> "",
           SecureCookie |-> FALSE, TLSCert |-> "", TLSKey |-> ""]

\* Load has not been called.
ConfIdle ==
    /\ environ = NoEnv
    /\ lpc = "idle"
    /\ conf = NoConf
    /\ vconf = NoConf
    /\ verr = Nil
    /\ cret = NoConf

\* Run has not been started.
RunIdle ==
    /\ rpc = "idle"
    /\ tickerC = <<>>
    /\ fires = 0
    /\ rsweeps = <<>>

\* PullAll is not running.
SweepIdle ==
    /\ apc = "idle"
    /\ actx = Background
    /\ alist = NoList
    /\ aret = Nil

AllIdle == SweepIdle /\ RunIdle /\ ConfIdle

TasksIdle ==
    /\ tpc = [t \in Tasks |-> "idle"]
    /\ targ = [t \in Tasks |-> NoCall]
    /\ tfeed = [t \in Tasks |-> NoFeed]
    /\ tread = [t \in Tasks |-> NoRead]
    /\ tlog = [t \in Tasks |-> <<>>]
    /\ tret = [t \in Tasks |-> Nil]
    /\ tdec = [t \in Tasks |-> NoDecision]
    /\ tctx = [t \in Tasks |-> NoCtx]
    /\ cancelled = {}

\* The stores and tasks at rest: SpecFeeds drives PullFeeds over an arbitrary
\* pullFeed and never touches them.
PullIdle ==
    /\ feedStore = [id \in FeedIDs |->
                      [NoFeed EXCEPT !.ID = id,
                                     !.Link = "https://example.com/feed.xml"]]
    /\ itemStore = {}
    /\ now = 0
    /\ TasksIdle

InitFeeds ==
    /\ \E n \in 0..MaxFeeds :
         /\ feeds = [i \in 1..n |-> i]
         /\ maxWorkers \in {0 - 1, 0, 1, n - 1, n, 2 * n}
         /\ pullFeed \in PullFeedFns(n)
         /\ wpc = [i \in 1..n |-> "idle"]
         /\ werr = [i \in 1..n |-> Nil]
         /\ calls = [i \in 1..n |-> <<>>]
    /\ force \in BOOLEAN
    /\ pc = "start"
    /\ idx = 1
    /\ poolCap = 0
    /\ poolLen = 0
    /\ poolClosed = FALSE
    /\ wg = 0
    /\ mu = 0
    /\ errs = <<>>
    /\ result = <<>>
    /\ PullIdle
    /\ AllIdle

\* pull.go:93-104: clamp maxWorkers, make the channel, declare wg, mu, errs.
Start ==
    /\ pc = "start"
    /\ poolCap' = Workers(maxWorkers)
    /\ pc' = "loop"
    /\ UNCHANGED <<feeds, force, maxWorkers, pullFeed, idx, poolLen, poolClosed,
                   wg, mu, errs, result, wpc, werr, calls, pullVars, allVars,
                   ctxVars, runVars, confVars>>

\* pull.go:106-109,123: the next feed of the range loop: take a slot (the
\* send blocks while the channel is full), wg.Add(1), and start the worker
\* goroutine on that feed.
Dispatch ==
    /\ pc = "loop"
    /\ MoreFeeds(idx, feeds)
    /\ CanSend(poolLen, poolCap)
    /\ poolLen' = poolLen + 1
    /\ wg' = wg + 1
    /\ wpc' = [wpc EXCEPT ![idx] = "spawned"]
    /\ idx' = idx + 1
    /\ UNCHANGED <<feeds, force, maxWorkers, pullFeed, pc, poolCap, poolClosed,
                   mu, errs, result, werr, calls, pullVars, allVars,
                   ctxVars, runVars, confVars>>

\* pull.go:106,124: the range loop is exhausted.
LoopExit ==
    /\ pc = "loop"
    /\ ~MoreFeeds(idx, feeds)
    /\ pc' = "wait"
    /\ UNCHANGED <<feeds, force, maxWorkers, pullFeed, idx, poolCap, poolLen,
                   poolClosed, wg, mu, errs, result, wpc, werr, calls, pullVars, allVars,
                   ctxVars, runVars, confVars>>

\* pull.go:125: wg.Wait() returns when the counter is zero.
Wait ==
    /\ pc = "wait"
    /\ WaitDone(wg)
    /\ pc' = "return"
    /\ UNCHANGED <<feeds, force, maxWorkers, pullFeed, idx, poolCap, poolLen,
                   poolClosed, wg, mu, errs, result, wpc, werr, calls, pullVars, allVars,
                   ctxVars, runVars, confVars>>

\* pull.go:127 and the deferred close of pull.go:98.
Return ==
    /\ pc = "return"
    /\ result' = errs
    /\ poolClosed' = TRUE
    /\ pc' = "returned"
    /\ UNCHANGED <<feeds, force, maxWorkers, pullFeed, idx, poolCap, poolLen,
                   wg, mu, errs, wpc, werr, calls, pullVars, allVars,
                   ctxVars, runVars, confVars>>

\* pull.go:115: the worker calls pullFeed(ctx, f, force).
WorkerCall(w) ==
    /\ wpc[w] = "spawned"
    /\ wpc' = [wpc EXCEPT ![w] = "inflight"]
    /\ calls' = [calls EXCEPT ![feeds[w]] = Append(@, force)]
    /\ UNCHANGED <<feeds, force, maxWorkers, pullFeed, pc, idx, poolCap, poolLen,
                   poolClosed, wg, mu, errs, result, werr, pullVars, allVars,
                   ctxVars, runVars, confVars>>

\* pull.go:115: pullFeed returns; err != nil selects the append branch.
WorkerReturn(w) ==
    /\ wpc[w] = "inflight"
    /\ werr' = [werr EXCEPT ![w] = ResultOf(pullFeed, feeds, w)]
    /\ wpc' = [wpc EXCEPT ![w] = IF werr'[w] # Nil THEN "lock" ELSE "done"]
    /\ UNCHANGED <<feeds, force, maxWorkers, pullFeed, pc, idx, poolCap, poolLen,
                   poolClosed, wg, mu, errs, result, calls, pullVars, allVars,
                   ctxVars, runVars, confVars>>

\* pull.go:116: mu.Lock().
WorkerLock(w) ==
    /\ wpc[w] = "lock"
    /\ MutexFree(mu)
    /\ mu' = w
    /\ wpc' = [wpc EXCEPT ![w] = "append"]
    /\ UNCHANGED <<feeds, force, maxWorkers, pullFeed, pc, idx, poolCap, poolLen,
                   poolClosed, wg, errs, result, werr, calls, pullVars, allVars,
                   ctxVars, runVars, confVars>>

\* pull.go:117-120: errs = append(errs, FeedPullError{Feed: f, Err: err}).
WorkerAppend(w) ==
    /\ wpc[w] = "append"
    /\ errs' = Append(errs, Entry(feeds[w], werr[w]))
    /\ wpc' = [wpc EXCEPT ![w] = "unlock"]
    /\ UNCHANGED <<feeds, force, maxWorkers, pullFeed, pc, idx, poolCap, poolLen,
                   poolClosed, wg, mu, result, werr, calls, pullVars, allVars,
                   ctxVars, runVars, confVars>>

\* pull.go:121: mu.Unlock().
WorkerUnlock(w) ==
    /\ wpc[w] = "unlock"
    /\ mu' = 0
    /\ wpc' = [wpc EXCEPT ![w] = "done"]
    /\ UNCHANGED <<feeds, force, maxWorkers, pullFeed, pc, idx, poolCap, poolLen,
                   poolClosed, wg, errs, result, werr, calls, pullVars, allVars,
                   ctxVars, runVars, confVars>>

\* pull.go:110-111: the deferred function starts with wg.Done().
WorkerDone(w) ==
    /\ wpc[w] = "done"
    /\ wg' = wg - 1
    /\ wpc' = [wpc EXCEPT ![w] = "release"]
    /\ UNCHANGED <<feeds, force, maxWorkers, pullFeed, pc, idx, poolCap, poolLen,
                   poolClosed, mu, errs, result, werr, calls, pullVars, allVars,
                   ctxVars, runVars, confVars>>

\* pull.go:112: <-routinePool gives the slot back. A receive takes a buffered
\* value also after the channel was closed, and returns at once on a closed
\* empty channel.
WorkerRelease(w) ==
    /\ wpc[w] = "release"
    /\ poolLen > 0 \/ poolClosed
    /\ poolLen' = SlotFreed(poolLen)
    /\ wpc' = [wpc EXCEPT ![w] = "exit"]
    /\ UNCHANGED <<feeds, force, maxWorkers, pullFeed, pc, idx, poolCap,
                   poolClosed, wg, mu, errs, result, werr, calls, pullVars, allVars,
                   ctxVars, runVars, confVars>>

NextFeeds ==
    \/ Start
    \/ Dispatch
    \/ LoopExit
    \/ Wait
    \/ Return
    \/ \E w \in WorkerIds : WorkerCall(w)
    \/ \E w \in WorkerIds : WorkerReturn(w)
    \/ \E w \in WorkerIds : WorkerLock(w)
    \/ \E w \in WorkerIds : WorkerAppend(w)
    \/ \E w \in WorkerIds : WorkerUnlock(w)
    \/ \E w \in WorkerIds : WorkerDone(w)
    \/ \E w \in WorkerIds : WorkerRelease(w)

SpecFeeds == InitFeeds /\ [][NextFeeds]_vars

\* PullFeeds when every step that can run does run: the dispatcher and the
\* worker goroutines are scheduled by the Go runtime, and every pullFeed
\* call returns.
SpecFeedsFair == SpecFeeds /\ WF_vars(NextFeeds)

\* ------------------------------------------------------------ the per-feed pull

\* model.Feed.IsSuspended / IsFailed: a nil pointer counts as not suspended,
\* a nil or empty failure as not failed.
IsSuspended(f) == f.Suspended # NULL /\ f.Suspended = "true"
IsFailed(f) == f.Failure # NULL /\ f.Failure # ""

ActionFetchUpdate == "ActionFetchUpdate"
ActionSkipUpdate == "ActionSkipUpdate"
SkipReasonSuspended == "user suspended feed updates"
SkipReasonLastUpdateFailed == "last update failed"
SkipReasonTooSoon == "feed was updated too recently"

\* DecideFeedUpdateAction(f, now): <<action, skip reason or NULL>>.
\* (Variants: the failure rule dropped; the interval boundary on the skip
\* side; the failure rule ahead of the suspension rule; an empty failure
\* string counted as a failure.)
DecideIgnoringFailure(f, t) ==
    IF IsSuspended(f) THEN <<ActionSkipUpdate, SkipReasonSuspended>>
    ELSE IF t - f.UpdatedAt < interval THEN <<ActionSkipUpdate, SkipReasonTooSoon>>
    ELSE <<ActionFetchUpdate, NULL>>
DecideBoundaryOnSkipSide(f, t) ==
    IF IsSuspended(f) THEN <<ActionSkipUpdate, SkipReasonSuspended>>
    ELSE IF IsFailed(f) THEN <<ActionSkipUpdate, SkipReasonLastUpdateFailed>>
    ELSE IF t - f.UpdatedAt <= interval THEN <<ActionSkipUpdate, SkipReasonTooSoon>>
    ELSE <<ActionFetchUpdate, NULL>>
DecideFailureFirst(f, t) ==
    IF IsFailed(f) THEN <<ActionSkipUpdate, SkipReasonLastUpdateFailed>>
    ELSE IF IsSuspended(f) THEN <<ActionSkipUpdate, SkipReasonSuspended>>
    ELSE IF t - f.UpdatedAt < interval THEN <<ActionSkipUpdate, SkipReasonTooSoon>>
    ELSE <<ActionFetchUpdate, NULL>>
DecideEmptyFailureFails(f, t) ==
    IF IsSuspended(f) THEN <<ActionSkipUpdate, SkipReasonSuspended>>
    ELSE IF f.Failure # NULL THEN <<ActionSkipUpdate, SkipReasonLastUpdateFailed>>
    ELSE IF t - f.UpdatedAt < interval THEN <<ActionSkipUpdate, SkipReasonTooSoon>>
    ELSE <<ActionFetchUpdate, NULL>>
DecideFailureExpires(f, t) ==
    IF IsSuspended(f) THEN <<ActionSkipUpdate, SkipReasonSuspended>>
    ELSE IF t - f.UpdatedAt < interval
    THEN <<ActionSkipUpdate,
           IF IsFailed(f) THEN SkipReasonLastUpdateFailed ELSE SkipReasonTooSoon>>
    ELSE <<ActionFetchUpdate, NULL>>
DecideFeedUpdateAction(f, t) ==
    IF IsSuspended(f) THEN <<ActionSkipUpdate, SkipReasonSuspended>>
    ELSE IF IsFailed(f) THEN <<ActionSkipUpdate, SkipReasonLastUpdateFailed>>
    ELSE IF t - f.UpdatedAt < interval THEN <<ActionSkipUpdate, SkipReasonTooSoon>>
    ELSE <<ActionFetchUpdate, NULL>>

\* do: a suspended feed is skipped whatever force says; without force every
\* skip decision is honoured; otherwise the feed is pulled.
\* do, then Pull: a call that is not skipped goes to readFeed first; the
\* store is reached only through the return of readFeed.
AfterDecisionAlwaysRead(fetches) == "read"
AfterDecisionStoreFirst(fetches) == IF fetches THEN "store" ELSE "done"
AfterDecision(fetches) == IF fetches THEN "read" ELSE "done"

DoFetchesForceOverSuspension(f, fr, t) ==
    LET d == DecideFeedUpdateAction(f, t)
    IN  fr \/ d[1] = ActionFetchUpdate
DoFetchesForceHonoursFailure(f, fr, t) ==
    LET d == DecideFeedUpdateAction(f, t)
    IN  /\ d[2] # SkipReasonSuspended
        /\ d[2] # SkipReasonLastUpdateFailed
        /\ fr \/ d[1] = ActionFetchUpdate
DoFetches(f, fr, t) ==
    LET d == DecideFeedUpdateAction(f, t)
    IN  /\ d[2] # SkipReasonSuspended
        /\ fr \/ d[1] = ActionFetchUpdate

\* The items a fetch returns: the fetch collaborator does not know the feed's
\* persisted ID, so FeedID is still the zero value.
FetchedItems(k) == [i \in 1..k |-> [GUID |-> i, FeedID |-> 0]]

\* What readFeed can return: a request error with the zero FetchItemsResult,
\* or a result with 0..MaxItems items and a build time that may be nil.
FetchOutcomes ==
    {[called |-> TRUE, err |-> e, Items |-> <<>>, LastBuild |-> NULL] :
        e \in FetchErrors}
    \cup
    {[called |-> TRUE, err |-> Nil, Items |-> FetchedItems(k), LastBuild |-> lb] :
        k \in 0..MaxItems, lb \in {NULL, newBuild}}

\* SingleFeedPuller.Pull: "We don't exit on error, as we want to record any
\* error in the data store": the store update runs whatever readFeed returned.
PullProceedsOnSuccess(readErr) == readErr = Nil
PullProceeds(readErr) == TRUE

\* updateFeedInStore: set the correct feed ID for all items.
TagItemsNot(items, feedID) == items
TagItems(items, feedID) == [i \in DOMAIN items |-> [items[i] EXCEPT !.FeedID = feedID]]

\* A storage call as the store receives it, with the error it returned.
InsertCall(items, r) ==
    [op |-> "Insert", id |-> 0, Items |-> items, LastBuild |-> NULL,
     Failure |-> NULL, ret |-> r]
UpdateCall(id, lastBuild, failure, r) ==
    [op |-> "Update", id |-> id, Items |-> <<>>, LastBuild |-> lastBuild,
     Failure |-> failure, ret |-> r]

\* updateFeedInStore, requestError != nil:
\* feedRepo.Update(feedID, &model.Feed{Failure: ptr.To(requestError.Error())}).
FailureUpdateCleared(feedID, requestError, r) ==
    UpdateCall(feedID, NULL, "", r)
FailureUpdate(feedID, requestError, r) ==
    UpdateCall(feedID, NULL, requestError, r)

\* updateFeedInStore, success:
\* feedRepo.Update(feedID, &model.Feed{LastBuild: lastBuild, Failure: ptr.To("")}).
SuccessUpdateFailureKept(feedID, lastBuild, r) ==
    UpdateCall(feedID, lastBuild, NULL, r)
SuccessUpdateOldBuild(feedID, lastBuild, r) ==
    UpdateCall(feedID, feedStore[feedID].LastBuild, "", r)
SuccessUpdate(feedID, lastBuild, r) ==
    UpdateCall(feedID, lastBuild, "", r)

\* updateFeedInStore: if len(items) > 0 { ... Insert ... }.
HasItemsAlways(items) == TRUE
HasItems(items) == Len(items) > 0

\* updateFeedInStore: if err := p.itemRepo.Insert(items); err != nil { return err }.
InsertFailedIgnored(r) == FALSE
InsertFailed(r) == r # Nil

\* updateFeedInStore: the return inside the insert's error branch leaves the
\* function; otherwise control falls through to the final Update.
AfterInsertAlwaysUpdates(r) == "success"
AfterInsert(r) == IF InsertFailed(r) THEN "done" ELSE "success"

\* The feed store's Update(id, partial): only the non-nil fields of the
\* partial feed are applied, and the row's UpdatedAt is set to the time of
\* the write.
ApplyUpdate(row, u, t) ==
    [row EXCEPT !.LastBuild = IF u.LastBuild # NULL THEN u.LastBuild ELSE @,
                !.Failure = IF u.Failure # NULL THEN u.Failure ELSE @,
                !.UpdatedAt = t]

\* The feed store after an Update call that returned r.
StoreAfter(u) ==
    IF u.ret = Nil /\ u.id \in DOMAIN feedStore
    THEN [feedStore EXCEPT ![u.id] = ApplyUpdate(@, u, now)]
    ELSE feedStore

SchedIdle ==
    /\ feeds = <<>>
    /\ force = FALSE
    /\ maxWorkers = 0
    /\ pullFeed = <<>>
    /\ pc = "start"
    /\ idx = 1
    /\ poolCap = 0
    /\ poolLen = 0
    /\ poolClosed = FALSE
    /\ wg = 0
    /\ mu = 0
    /\ errs = <<>>
    /\ result = <<>>
    /\ wpc = <<>>
    /\ werr = <<>>
    /\ calls = <<>>

\* The feed rows the import/settings subsystem can have left in the store.
FeedRows(id) ==
    {[ID |-> id, Link |-> l, LastBuild |-> b, Failure |-> fl, Suspended |-> sp,
      UpdatedAt |-> 0] :
        l \in {NULL, "https://example.com/feed.xml"},
        b \in {NULL, oldBuild},
        fl \in {NULL, "", "dummy previous error"},
        sp \in {NULL, "true", "false"}}

Init ==
    /\ SchedIdle
    /\ feedStore \in [FeedIDs -> UNION {FeedRows(id) : id \in FeedIDs}]
    /\ \A id \in FeedIDs : feedStore[id].ID = id
    /\ itemStore = {}
    /\ now = 0
    /\ TasksIdle
    /\ AllIdle

\* The IDs a caller can ask PullOne for: the stored feeds and one that is not.
PullIDs == FeedIDs \cup {7}

\* do: ctx, cancel := context.WithTimeout(ctx, 30*time.Second), first
\* statement of do; the context Pull and the fetch are given.
DoContextDetached(c) == WithTimeoutDetached(c, doTimeout, Sec(now), "do")
DoContext(c) == WithTimeout(c, doTimeout, Sec(now), "do")

Begin(t, call) ==
    /\ tpc[t] \in {"idle", "done"}
    /\ targ' = [targ EXCEPT ![t] = call]
    /\ tread' = [tread EXCEPT ![t] = NoRead]
    /\ tlog' = [tlog EXCEPT ![t] = <<>>]
    /\ tret' = [tret EXCEPT ![t] = Nil]
    /\ tdec' = [tdec EXCEPT ![t] = NoDecision]

\* PullOne: return p.do(ctx, f, true): the call a PullOne makes carries
\* force = true.
PullOneCallUnforced(id) == [id |-> id, force |-> FALSE, entry |-> "PullOne"]
PullOneCall(id) == [id |-> id, force |-> TRUE, entry |-> "PullOne"]

\* PullOne: if err != nil { return err }: the error of Get is returned as
\* it is, a missing feed included.
GetErrorNotFoundHidden(r) == IF r = notFound THEN Nil ELSE r
GetError(r) == r

\* PullOne(ctx, id) is called with the context c (Feed.Refresh with an ID).
PullOne(t, id, c) ==
    /\ Begin(t, PullOneCall(id))
    /\ tfeed' = [tfeed EXCEPT ![t] = NoFeed]
    /\ tpc' = [tpc EXCEPT ![t] = "get"]
    /\ tctx' = [tctx EXCEPT ![t] = [caller |-> c, fetch |-> c]]
    /\ UNCHANGED <<schedVars, allVars, runVars, cancelled, feedStore, itemStore, now, confVars>>

\* PullOne: f, err := p.feedRepo.Get(id); an error is returned as it is.
\* With a row, do is entered and derives its context from PullOne's.
Get(t) ==
    /\ tpc[t] = "get"
    /\ \E r \in {Nil, dbError, notFound} :
        /\ r = Nil => targ[t].id \in FeedIDs
        /\ r = notFound => targ[t].id \notin FeedIDs
        /\ IF r = Nil
           THEN /\ tfeed' = [tfeed EXCEPT ![t] = feedStore[targ[t].id]]
                /\ tpc' = [tpc EXCEPT ![t] = "decide"]
                /\ tret' = tret
                /\ tctx' = [tctx EXCEPT ![t].fetch = DoContext(tctx[t].caller)]
           ELSE /\ tret' = [tret EXCEPT ![t] = GetError(r)]
                /\ tpc' = [tpc EXCEPT ![t] = "done"]
                /\ tfeed' = tfeed
                /\ tctx' = tctx
    /\ UNCHANGED <<schedVars, allVars, runVars, cancelled, feedStore, itemStore, now, targ,
                   tread, tlog, tdec, confVars>>

\* p.do(ctx, f, force) is called with the context c on a row of the feed
\* list, as the worker of a PullFeeds batch calls it.
Do(t, id, fr, c) ==
    /\ Begin(t, [id |-> id, force |-> fr, entry |-> "do"])
    /\ tfeed' = [tfeed EXCEPT ![t] = feedStore[id]]
    /\ tpc' = [tpc EXCEPT ![t] = "decide"]
    /\ tctx' = [tctx EXCEPT ![t] = [caller |-> c, fetch |-> DoContext(c)]]
    /\ UNCHANGED <<schedVars, allVars, runVars, cancelled, feedStore, itemStore, now, confVars>>

\* do: the decision; a skipped feed returns nil at once.
Decide(t) ==
    /\ tpc[t] = "decide"
    /\ tdec' = [tdec EXCEPT ![t] = DecideFeedUpdateAction(tfeed[t], now)]
    /\ tpc' = [tpc EXCEPT ![t] =
                 AfterDecision(DoFetches(tfeed[t], targ[t].force, now))]
    /\ UNCHANGED <<schedVars, allVars, ctxVars, runVars, feedStore, itemStore, now, targ, tfeed, tread,
                   tlog, tret, confVars>>

\* Pull: p.readFeed(ctx, *feed.Link, feed.FeedRequestOptions) returns.
\* Dereferencing a nil Link panics.
Read(t) ==
    /\ tpc[t] = "read"
    /\ IF tfeed[t].Link = NULL
       THEN /\ tpc' = [tpc EXCEPT ![t] = "panic"]
            /\ UNCHANGED <<tread, tret, confVars>>
       ELSE \E o \in FetchOutcomes :
              /\ tread' = [tread EXCEPT ![t] = o]
              /\ IF PullProceeds(o.err)
                 THEN /\ tpc' = [tpc EXCEPT ![t] = "store"]
                      /\ tret' = tret
                 ELSE /\ tpc' = [tpc EXCEPT ![t] = "done"]
                      /\ tret' = [tret EXCEPT ![t] = o.err]
    /\ UNCHANGED <<schedVars, allVars, ctxVars, runVars, feedStore, itemStore, now, targ, tfeed, tlog,
                   tdec, confVars>>

\* updateFeedInStore, requestError != nil: one Update that records the
\* failure; its result is what Pull returns.
RecordFailure(t) ==
    /\ tpc[t] = "store"
    /\ tread[t].err # Nil
    /\ \E r \in {Nil, dbError} :
        LET u == FailureUpdate(tfeed[t].ID, tread[t].err, r)
        IN  /\ tlog' = [tlog EXCEPT ![t] = Append(@, u)]
            /\ feedStore' = StoreAfter(u)
            /\ tret' = [tret EXCEPT ![t] = r]
    /\ tpc' = [tpc EXCEPT ![t] = "done"]
    /\ UNCHANGED <<schedVars, allVars, ctxVars, runVars, itemStore, now, targ, tfeed, tread, tdec, confVars>>

\* updateFeedInStore, len(items) > 0: tag the items and insert them; an
\* insert error is returned.
InsertItems(t) ==
    /\ tpc[t] = "store"
    /\ tread[t].err = Nil
    /\ HasItems(tread[t].Items)
    /\ \E r \in {Nil, dbError} :
        LET items == TagItems(tread[t].Items, tfeed[t].ID)
        IN  /\ tlog' = [tlog EXCEPT ![t] = Append(@, InsertCall(items, r))]
            /\ itemStore' = IF r = Nil THEN itemStore \cup Range(items)
                            ELSE itemStore
            /\ tret' = IF InsertFailed(r) THEN [tret EXCEPT ![t] = r] ELSE tret
            /\ tpc' = [tpc EXCEPT ![t] = AfterInsert(r)]
    /\ UNCHANGED <<schedVars, allVars, ctxVars, runVars, feedStore, now, targ, tfeed, tread, tdec, confVars>>

\* updateFeedInStore, last statement: the Update that writes lastBuild and
\* clears failure; reached after the insert, or at once when there are no
\* items. Its result is what Pull returns.
RecordSuccess(t) ==
    /\ \/ tpc[t] = "success"
       \/ tpc[t] = "store" /\ tread[t].err = Nil /\ ~HasItems(tread[t].Items)
    /\ \E r \in {Nil, dbError} :
        LET u == SuccessUpdate(tfeed[t].ID, tread[t].LastBuild, r)
        IN  /\ tlog' = [tlog EXCEPT ![t] = Append(@, u)]
            /\ feedStore' = StoreAfter(u)
            /\ tret' = [tret EXCEPT ![t] = r]
    /\ tpc' = [tpc EXCEPT ![t] = "done"]
    /\ UNCHANGED <<schedVars, allVars, ctxVars, runVars, itemStore, now, targ, tfeed, tread, tdec, confVars>>

\* Time passes, in steps of interval / 2.
Tick ==
    /\ now < MaxTicks * (interval \div 2)
    /\ now' = now + interval \div 2
    /\ UNCHANGED <<schedVars, allVars, ctxVars, runVars, feedStore, itemStore, tpc, targ, tfeed, tread,
                   tlog, tret, tdec, confVars>>

Next ==
    \/ \E t \in Tasks, id \in PullIDs : PullOne(t, id, Background)
    \/ \E t \in Tasks : Get(t)
    \/ \E t \in Tasks, id \in FeedIDs, fr \in BOOLEAN : Do(t, id, fr, Background)
    \/ \E t \in Tasks : Decide(t)
    \/ \E t \in Tasks : Read(t)
    \/ \E t \in Tasks : RecordFailure(t)
    \/ \E t \in Tasks : InsertItems(t)
    \/ \E t \in Tasks : RecordSuccess(t)
    \/ Tick

Spec == Init /\ [][Next]_vars

\* ------------------------------------------------------------ PullFeeds: claims

\* The pullFeed invocations that have been called and have not returned.
InFlight == {w \in WorkerIds : wpc[w] = "inflight"}

\* The positions of feeds whose pullFeed returns an error.
Failing == {w \in WorkerIds : pullFeed[feeds[w]] # Nil}

\* The entries of a FeedPullError list that name feed f.
EntriesOf(list, f) == {i \in DOMAIN list : list[i].Feed = f}

\* The failing feeds paired with their errors, in input order.
RECURSIVE ErrorsInOrder(_)
ErrorsInOrder(n) ==
    IF n = 0 THEN <<>>
    ELSE IF pullFeed[feeds[n]] # Nil
         THEN Append(ErrorsInOrder(n - 1),
                     [Feed |-> feeds[n], Err |-> pullFeed[feeds[n]]])
         ELSE ErrorsInOrder(n - 1)

\* C1: at every moment of a PullFeeds call the number of pullFeed invocations
\* in flight is at most maxWorkers, and at most 1 when maxWorkers <= 0; the
\* slot channel never has capacity 0.
C1_BoundedInFlight ==
    /\ Cardinality(InFlight) <= (IF maxWorkers <= 0 THEN 1 ELSE maxWorkers)
    /\ pc # "start" => poolCap >= 1

\* C1 witness: maxWorkers = 0, one invocation in flight and the dispatcher
\* blocked on the full slot channel with a feed still to dispatch.
C1_Witness ==
    /\ maxWorkers = 0
    /\ Cardinality(InFlight) = 1
    /\ pc = "loop"
    /\ idx <= Len(feeds)
    /\ poolLen = poolCap

\* C2: once PullFeeds has returned, every pullFeed invocation it started has
\* returned and every worker is past wg.Done; the returned list holds the
\* error of every invocation that returned one, and is empty when none did.
C2_FanInBarrier ==
    pc = "returned" =>
        /\ \A w \in WorkerIds : wpc[w] \in {"release", "exit"}
        /\ \A w \in Failing :
             \E i \in DOMAIN result :
                result[i] = [Feed |-> feeds[w], Err |-> pullFeed[feeds[w]]]
        /\ (Failing = {}) => result = <<>>

\* C2 witness: PullFeeds returned two errors while a worker has yet to give
\* its slot back.
C2_Witness ==
    /\ pc = "returned"
    /\ Len(result) >= 2
    /\ \E w \in WorkerIds : wpc[w] = "release"

\* C3: with K of the N feeds failing, the returned list has exactly K
\* entries, exactly one for each failing feed, each carrying the error that
\* feed's own pullFeed returned, for every maxWorkers and interleaving.
C3_ExactlyKErrors ==
    pc = "returned" =>
        /\ Len(result) = Cardinality(Failing)
        /\ \A w \in Failing : Cardinality(EntriesOf(result, feeds[w])) = 1
        /\ \A i \in DOMAIN result :
             /\ result[i].Feed \in Range(feeds)
             /\ result[i].Err # Nil
             /\ result[i].Err = pullFeed[result[i].Feed]

\* C3 witness: three feeds, two of them failing with different errors,
\* maxWorkers = 2N, and the entries returned in the reverse of input order.
C3_Witness ==
    /\ pc = "returned"
    /\ Len(feeds) = 3
    /\ maxWorkers = 2 * Len(feeds)
    /\ Len(result) = 2
    /\ result[1].Feed > result[2].Feed
    /\ result[1].Err # result[2].Err

\* C4: pullFeed is invoked at most once per feed, always with the caller's
\* force flag, and by the time PullFeeds returns exactly once for every feed,
\* whatever errors the other feeds' invocations returned.
C4_EveryFeedOnce ==
    /\ \A w \in WorkerIds :
         /\ Len(calls[feeds[w]]) <= 1
         /\ \A i \in DOMAIN calls[feeds[w]] : calls[feeds[w]][i] = force
    /\ pc = "returned" => \A w \in WorkerIds : calls[feeds[w]] = <<force>>

\* C4 witness: the first feed's error is already in the list while a later
\* feed is being pulled with force set.
C4_Witness ==
    /\ Len(feeds) >= 2
    /\ force
    /\ Len(errs) >= 1
    /\ errs[1].Feed = feeds[1]
    /\ \E w \in InFlight : w > 1

\* C5: for maxWorkers = 1 and for every non-positive maxWorkers the slot
\* channel has capacity 1 and the returned list is one and the same function
\* of feeds and pullFeed (the failing feeds in input order), with every feed
\* invoked once: the runs with maxWorkers <= 0 return what maxWorkers = 1
\* returns.
C5_ZeroSameAsOne ==
    maxWorkers <= 1 =>
        /\ pc # "start" => poolCap = 1
        /\ pc = "returned" =>
             /\ result = ErrorsInOrder(Len(feeds))
             /\ \A w \in WorkerIds : calls[feeds[w]] = <<force>>

\* C5 witness: a run with maxWorkers = 0 over several feeds returned errors.
C5_Witness ==
    /\ maxWorkers = 0
    /\ pc = "returned"
    /\ Len(feeds) >= 2
    /\ Len(result) >= 1

\* ------------------------------------------------------------ the per-feed pull: claims

\* The task's call has returned / its fetch returned an error / a result.
Returned(t) == tpc[t] = "done"
FetchFailed(t) == tread[t].called /\ tread[t].err # Nil
FetchOK(t) == tread[t].called /\ tread[t].err = Nil

\* The items of the task's fetch as the store must receive them.
Tagged(t) ==
    [i \in DOMAIN tread[t].Items |->
        [GUID |-> tread[t].Items[i].GUID, FeedID |-> tfeed[t].ID]]

C8_StorageErrorReturned ==
    \A t \in Tasks :
        (Returned(t) /\ FetchOK(t)) =>
            \A i \in DOMAIN tlog[t] :
                tlog[t][i].ret # Nil => tret[t] = tlog[t][i].ret

\* C8 witness: the Insert succeeded, the Update after it failed, and Pull
\* returned the database error.
C8_Witness ==
    \E t \in Tasks :
        /\ Returned(t)
        /\ FetchOK(t)
        /\ Len(tlog[t]) = 2
        /\ tlog[t][1].ret = Nil
        /\ tlog[t][2].ret = dbError
        /\ tret[t] = dbError

\* The Update that records a successful fetch of the task's feed.
IsSuccessUpdate(t, c) ==
    /\ c.op = "Update"
    /\ c.id = tfeed[t].ID
    /\ c.LastBuild = tread[t].LastBuild
    /\ c.Failure = ""

\* The Insert of exactly the fetched items, each tagged with the feed's ID.
IsTaggedInsert(t, c) ==
    /\ c.op = "Insert"
    /\ c.Items = Tagged(t)

Decided(t) == tdec[t] # NoDecision

\* do went on to SingleFeedPuller.Pull, the fetch attempt.
EnteredPull(t) ==
    tread[t].called \/ tpc[t] \in {"read", "store", "success", "panic"}

\* do returned nil at the skip: no fetch, no storage call.
Skipped(t) ==
    /\ Returned(t)
    /\ ~tread[t].called
    /\ tlog[t] = <<>>
    /\ tret[t] = Nil

\* The fields of the feed the task works on, read without the model's helpers.
SuspendedSet(t) == tfeed[t].Suspended = "true"
FailureSet(t) == tfeed[t].Failure \notin {NULL, ""}

\* C11: a fetch that succeeded with no items leads to no Insert at all, and
\* the pull still makes the one Update carrying the fetch's lastBuild and
\* failure = "".
C11_EmptyFetchStillUpdates ==
    \A t \in Tasks :
        (FetchOK(t) /\ Len(tread[t].Items) = 0) =>
            /\ \A i \in DOMAIN tlog[t] : tlog[t][i].op # "Insert"
            /\ Returned(t) =>
                 /\ Len(tlog[t]) = 1
                 /\ IsSuccessUpdate(t, tlog[t][1])

\* C11 witness: an unchanged feed with an earlier failure was fetched with no
\* items; nothing was inserted and the row's failure is now cleared.
C11_Witness ==
    \E t \in Tasks :
        /\ Returned(t)
        /\ FetchOK(t)
        /\ tread[t].Items = <<>>
        /\ tfeed[t].Failure = "dummy previous error"
        /\ Len(tlog[t]) = 1
        /\ tret[t] = Nil
        /\ itemStore = {}
        /\ feedStore[tfeed[t].ID].Failure = ""

\* C12: for a feed with suspended = true, whatever its updatedAt, its failure
\* and the force flag, the decision is Skip with reason Suspended, and do
\* returns nil having made no fetch and no storage call.
C12_SuspendedAlwaysSkipped ==
    \A t \in Tasks :
        (Decided(t) /\ SuspendedSet(t)) =>
            /\ tdec[t] = <<ActionSkipUpdate, SkipReasonSuspended>>
            /\ ~EnteredPull(t)
            /\ Skipped(t)
            /\ feedStore[tfeed[t].ID] = tfeed[t]

\* C12 witness: a forced refresh of a suspended feed that also carries a
\* failure and was last updated more than an interval ago.
C12_Witness ==
    \E t \in Tasks :
        /\ Returned(t)
        /\ targ[t].force
        /\ SuspendedSet(t)
        /\ FailureSet(t)
        /\ now - tfeed[t].UpdatedAt > interval
        /\ tdec[t] = <<ActionSkipUpdate, SkipReasonSuspended>>

\* C13: for a feed that is not suspended and whose failure is non-null and
\* non-empty the decision is Skip with reason LastUpdateFailed whatever its
\* updatedAt; do goes on to the fetch exactly when force is set, and
\* otherwise returns nil with no fetch and no storage call.
C13_FailedSkippedUnlessForced ==
    \A t \in Tasks :
        (Decided(t) /\ ~SuspendedSet(t) /\ FailureSet(t)) =>
            /\ tdec[t] = <<ActionSkipUpdate, SkipReasonLastUpdateFailed>>
            /\ EnteredPull(t) <=> targ[t].force
            /\ ~targ[t].force => Skipped(t)
            /\ (targ[t].force /\ Returned(t)) => tread[t].called

\* C13 witness: feed with failure set, last updated 45 minutes ago, pulled
\* with force: decided LastUpdateFailed and fetched all the same.
C13_Witness ==
    \E t \in Tasks :
        /\ targ[t].force
        /\ tfeed[t].Suspended = "false"
        /\ FailureSet(t)
        /\ now - tfeed[t].UpdatedAt = interval + interval \div 2
        /\ tdec[t] = <<ActionSkipUpdate, SkipReasonLastUpdateFailed>>
        /\ tread[t].called

\* C14: when do decides on a feed that is neither suspended nor failed, with
\* now - updatedAt < interval the decision is Skip with reason TooSoon and
\* only force takes the call on to the fetch; with now - updatedAt >=
\* interval, equality included, the decision is Fetch and the call goes on
\* to the fetch.
C14_TooSoonBoundary ==
    [][\A t \in Tasks :
        (/\ tpc[t] = "decide"
         /\ tpc'[t] # "decide"
         /\ ~SuspendedSet(t)
         /\ ~FailureSet(t)) =>
            IF now - tfeed[t].UpdatedAt < interval
            THEN /\ tdec'[t] = <<ActionSkipUpdate, SkipReasonTooSoon>>
                 /\ tpc'[t] = "read" <=> targ[t].force
                 /\ tpc'[t] \in {"read", "done"}
            ELSE /\ tdec'[t] = <<ActionFetchUpdate, NULL>>
                 /\ tpc'[t] = "read"]_vars

\* C14 witness: without force, a feed updated exactly one interval ago was
\* just decided Fetch and is about to be read.
C14_Witness ==
    \E t \in Tasks :
        /\ tpc[t] = "read"
        /\ ~targ[t].force
        /\ ~SuspendedSet(t)
        /\ ~FailureSet(t)
        /\ now - tfeed[t].UpdatedAt = interval
        /\ tdec[t] = <<ActionFetchUpdate, NULL>>

\* C15: DecideFeedUpdateAction returns Fetch or Skip, a skip reason exactly
\* when the action is Skip, and the reason of the first rule that applies in
\* the order Suspended, LastUpdateFailed, TooSoon.
C15_OneReasonByPriority ==
    \A t \in Tasks :
        Decided(t) =>
            /\ tdec[t][1] \in {ActionFetchUpdate, ActionSkipUpdate}
            /\ tdec[t][1] = ActionSkipUpdate <=> tdec[t][2] # NULL
            /\ tdec[t][2] \in {NULL, SkipReasonSuspended,
                               SkipReasonLastUpdateFailed, SkipReasonTooSoon}
            /\ SuspendedSet(t) => tdec[t][2] = SkipReasonSuspended
            /\ (~SuspendedSet(t) /\ FailureSet(t)) =>
                 tdec[t][2] = SkipReasonLastUpdateFailed
            /\ tdec[t][2] = SkipReasonTooSoon =>
                 (~SuspendedSet(t) /\ ~FailureSet(t))

\* C15 witness: a feed that is suspended, failed and recently updated, all
\* three rules applying, was decided Skip with reason Suspended.
C15_Witness ==
    \E t \in Tasks :
        /\ SuspendedSet(t)
        /\ FailureSet(t)
        /\ now - tfeed[t].UpdatedAt < interval
        /\ tdec[t] = <<ActionSkipUpdate, SkipReasonSuspended>>

\* C16: when do decides on a feed whose failure is null or the empty string
\* and whose suspended flag is null or false, and the feed was updated at
\* least one interval ago, the decision is Fetch with no skip reason and the
\* call goes on to the fetch, with or without force.
C16_EmptyAndNullNotFailed ==
    [][\A t \in Tasks :
        (/\ tpc[t] = "decide"
         /\ tpc'[t] # "decide"
         /\ tfeed[t].Failure \in {NULL, ""}
         /\ tfeed[t].Suspended \in {NULL, "false"}
         /\ now - tfeed[t].UpdatedAt >= interval) =>
            /\ tdec'[t] = <<ActionFetchUpdate, NULL>>
            /\ tpc'[t] = "read"]_vars

\* C16 witness: a row whose failure an earlier pull set to "" and whose
\* suspended flag is null was decided Fetch without force, an interval after
\* that pull.
C16_Witness ==
    \E t \in Tasks :
        /\ tpc[t] = "read"
        /\ ~targ[t].force
        /\ tfeed[t].Failure = ""
        /\ tfeed[t].Suspended = NULL
        /\ tfeed[t].UpdatedAt > 0
        /\ now - tfeed[t].UpdatedAt >= interval
        /\ tdec[t] = <<ActionFetchUpdate, NULL>>

\* ------------------------------------------------------------ PullOne: claims

\* The task is in a PullOne call / that call's Get returned an error.
InPullOne(t) == targ[t].entry = "PullOne"
GetFailed(t) == InPullOne(t) /\ Returned(t) /\ tfeed[t] = NoFeed

\* C17: PullOne works on the row stored under the ID it was given and calls
\* do with force set: a feed that is not suspended goes on to the fetch
\* whatever its failure and however recently it was updated; a suspended
\* feed is not fetched and PullOne returns nil with no storage call.
C17_PullOneForcesButSuspended ==
    \A t \in Tasks :
        InPullOne(t) =>
            /\ targ[t].force
            /\ tfeed[t] # NoFeed =>
                 /\ targ[t].id \in DOMAIN feedStore
                 /\ tfeed[t].ID = targ[t].id
            /\ (Decided(t) /\ ~SuspendedSet(t)) => EnteredPull(t)
            /\ (Decided(t) /\ SuspendedSet(t)) =>
                 (~EnteredPull(t) /\ Skipped(t))

\* C17 witness: PullOne fetched a feed that has a failure recorded and was
\* updated less than an interval ago.
C17_Witness ==
    \E t \in Tasks :
        /\ InPullOne(t)
        /\ ~SuspendedSet(t)
        /\ FailureSet(t)
        /\ tfeed[t].UpdatedAt > 0
        /\ now - tfeed[t].UpdatedAt < interval
        /\ tread[t].called

SweepRows(id) ==
    {[ID |-> id, Link |-> "https://example.com/feed.xml", LastBuild |-> oldBuild,
      Failure |-> fl, Suspended |-> sp, UpdatedAt |-> 0] :
        fl \in {"", "dummy previous error"}, sp \in {"true", "false"}}
    \ {[ID |-> id, Link |-> "https://example.com/feed.xml", LastBuild |-> oldBuild,
        Failure |-> "dummy previous error", Suspended |-> "true", UpdatedAt |-> 0]}

\* pull.go:61: ctx, cancel := context.WithTimeout(ctx, interval/2), the
\* context of a sweep that began at minute s, which PullFeeds hands to every
\* p.do.
SweepContextSince(c, s) ==
    WithTimeout(c, Sec(interval \div 2), Sec(s), "PullAll")
SweepContext(c) == SweepContextSince(c, now)

\* PullAll(ctx, force) has been called on a store of 0..MaxListed feeds;
\* PullFeeds is not running yet.
InitAll ==
    /\ \E n \in 0..MaxListed :
         /\ feedStore \in [1..n -> UNION {SweepRows(id) : id \in 1..n}]
         /\ \A id \in 1..n : feedStore[id].ID = id
    /\ itemStore = {}
    /\ now = interval
    /\ force \in BOOLEAN
    /\ apc = "list"
    /\ actx = SweepContext(Background)
    /\ alist = NoList
    /\ aret = Nil
    /\ tctx = <<>>
    /\ cancelled = {}
    /\ ConfIdle
    /\ RunIdle
    /\ feeds = <<>>
    /\ maxWorkers = 0
    /\ pullFeed = <<>>
    /\ pc = "idle"
    /\ idx = 1
    /\ poolCap = 0
    /\ poolLen = 0
    /\ poolClosed = FALSE
    /\ wg = 0
    /\ mu = 0
    /\ errs = <<>>
    /\ result = <<>>
    /\ wpc = <<>>
    /\ werr = <<>>
    /\ calls = <<>>
    /\ tpc = <<>>
    /\ targ = <<>>
    /\ tfeed = <<>>
    /\ tread = <<>>
    /\ tlog = <<>>
    /\ tret = <<>>
    /\ tdec = <<>>

\* The fetch outcomes a sweep is run against: the request error of a bad
\* status, or one new item with a build time.
SweepOutcomes ==
    {o \in FetchOutcomes :
        \/ o.err = "got status code 404"
        \/ o.err = Nil /\ Len(o.Items) = 1 /\ o.LastBuild = newBuild}

\* pull.go:64-70: an error of List is returned, except ErrNotFound, which
\* becomes nil.
ListError(r) == IF r = notFound THEN Nil ELSE r

\* pull.go:75-79: the per-feed errors are logged and PullAll returns nil.
SweepResultFirstError(es) == IF es = <<>> THEN Nil ELSE es[1].Err
SweepResult(es) == Nil

\* part_004:169-175: do returns the error Pull returned, or nil.
DoResultWithFetchError(t) ==
    IF tret[t] = Nil /\ tread[t].called THEN tread[t].err ELSE tret[t]
DoResult(t) == tret[t]

\* pull.go:109-115: go func(f *model.Feed) {...}(feed): each worker gets the
\* row of its own position in the list.
ListedRowLoopVar(i) == feedStore[Cardinality(DOMAIN feedStore)]
ListedRow(i) == feedStore[i]

\* pull.go:64-75: List returns; on an error or an empty list PullAll returns,
\* otherwise it calls PullFeeds(ctx, feeds, force, 10, p.do) on the rows.
ListFeeds ==
    /\ apc = "list"
    /\ \E r \in {Nil, dbError, notFound} :
        LET n == IF r = Nil THEN Cardinality(DOMAIN feedStore) ELSE 0
        IN  /\ alist' = [called |-> TRUE, err |-> r, n |-> n]
            /\ IF n = 0
               THEN /\ aret' = ListError(r)
                    /\ apc' = "returned"
                    /\ cancelled' = cancelled \cup {"PullAll"}
                    /\ UNCHANGED <<feeds, maxWorkers, pc, wpc, werr, calls, tpc,
                                   targ, tfeed, tread, tlog, tret, tdec, tctx, confVars>>
               ELSE /\ aret' = aret
                    /\ apc' = "pull"
                    /\ feeds' = [i \in 1..n |-> i]
                    /\ maxWorkers' = sweepWorkers
                    /\ pc' = "start"
                    /\ wpc' = [i \in 1..n |-> "idle"]
                    /\ werr' = [i \in 1..n |-> Nil]
                    /\ calls' = [i \in 1..n |-> <<>>]
                    /\ tpc' = [i \in 1..n |-> "idle"]
                    /\ targ' = [i \in 1..n |-> NoCall]
                    /\ tfeed' = [i \in 1..n |-> ListedRow(i)]
                    /\ tread' = [i \in 1..n |-> NoRead]
                    /\ tlog' = [i \in 1..n |-> <<>>]
                    /\ tret' = [i \in 1..n |-> Nil]
                    /\ tdec' = [i \in 1..n |-> NoDecision]
                    /\ tctx' = [i \in 1..n |-> NoCtx]
                    /\ cancelled' = cancelled
    /\ UNCHANGED <<force, pullFeed, idx, poolCap, poolLen, poolClosed, wg, mu,
                   errs, result, feedStore, itemStore, now, actx, runVars, confVars>>

\* pull.go:115 with pullFeed = p.do: the worker calls p.do(ctx, f, force) on
\* its row of the list.
WorkerCallDo(w) ==
    /\ wpc[w] = "spawned"
    /\ wpc' = [wpc EXCEPT ![w] = "inflight"]
    /\ calls' = [calls EXCEPT ![feeds[w]] = Append(@, force)]
    /\ targ' = [targ EXCEPT ![w] = [id |-> feeds[w], force |-> force,
                                    entry |-> "do"]]
    /\ tpc' = [tpc EXCEPT ![w] = "decide"]
    /\ tctx' = [tctx EXCEPT ![w] = [caller |-> actx, fetch |-> DoContext(actx)]]
    /\ UNCHANGED <<feeds, force, maxWorkers, pullFeed, pc, idx, poolCap, poolLen,
                   poolClosed, wg, mu, errs, result, werr, allVars, feedStore,
                   itemStore, now, tfeed, tread, tlog, tret, tdec, cancelled,
                   runVars, confVars>>

\* pull.go:115: p.do returned; err != nil selects the append branch.
WorkerReturnDo(w) ==
    /\ wpc[w] = "inflight"
    /\ tpc[w] = "done"
    /\ werr' = [werr EXCEPT ![w] = DoResult(w)]
    /\ wpc' = [wpc EXCEPT ![w] = IF werr'[w] # Nil THEN "lock" ELSE "done"]
    /\ UNCHANGED <<feeds, force, maxWorkers, pullFeed, pc, idx, poolCap, poolLen,
                   poolClosed, wg, mu, errs, result, calls, pullVars, allVars,
                   ctxVars, runVars, confVars>>

\* pull.go:76-79: PullFeeds returned; the errors are logged, PullAll returns
\* and its deferred cancel ends the sweep's context.
SweepReturn ==
    /\ apc = "pull"
    /\ pc = "returned"
    /\ aret' = SweepResult(result)
    /\ apc' = "returned"
    /\ cancelled' = cancelled \cup {"PullAll"}
    /\ UNCHANGED <<schedVars, pullVars, alist, actx, tctx, runVars, confVars>>

NextAll ==
    \/ ListFeeds
    \/ Start
    \/ Dispatch
    \/ LoopExit
    \/ Wait
    \/ Return
    \/ \E w \in WorkerIds : WorkerCallDo(w)
    \/ \E w \in WorkerIds : Decide(w)
    \/ \E w \in WorkerIds : Read(w) /\ tread'[w] \in SweepOutcomes
    \/ \E w \in WorkerIds : RecordFailure(w)
    \/ \E w \in WorkerIds : InsertItems(w)
    \/ \E w \in WorkerIds : RecordSuccess(w)
    \/ \E w \in WorkerIds : WorkerReturnDo(w)
    \/ \E w \in WorkerIds : WorkerLock(w)
    \/ \E w \in WorkerIds : WorkerAppend(w)
    \/ \E w \in WorkerIds : WorkerUnlock(w)
    \/ \E w \in WorkerIds : WorkerDone(w)
    \/ \E w \in WorkerIds : WorkerRelease(w)
    \/ SweepReturn

SpecAll == InitAll /\ [][NextAll]_vars

\* ------------------------------------------------------------ PullAll: claims

\* A storage call of worker w's pull returned an error.
StorageFailed(w) == \E j \in DOMAIN tlog[w] : tlog[w][j].ret # Nil

\* C19: once PullAll has returned, a non-nil return is the error List
\* returned; with an empty list it returned nil and PullFeeds was never
\* started; with a non-empty list it returned nil, however many per-feed
\* pulls returned errors, after p.do was called once, with the caller's
\* force, on every listed feed and had returned.
C19_SweepErrorOnlyFromList ==
    apc = "returned" =>
        /\ alist.called
        /\ aret # Nil => (alist.err # Nil /\ aret = alist.err)
        /\ (alist.err = Nil /\ alist.n = 0) =>
             /\ aret = Nil
             /\ pc = "idle"
             /\ feeds = <<>>
        /\ alist.n > 0 =>
             /\ aret = Nil
             /\ pc = "returned"
             /\ Len(feeds) = alist.n
             /\ \A w \in WorkerIds :
                  /\ calls[feeds[w]] = <<force>>
                  /\ Decided(w)
                  /\ Returned(w)
             /\ Len(result) = Cardinality({w \in WorkerIds : tret[w] # Nil})

\* C19 witness: a sweep over two feeds returned nil although the pulls of
\* both feeds returned errors.
C19_Witness ==
    /\ apc = "returned"
    /\ aret = Nil
    /\ alist.n = 2
    /\ Len(result) = 2
    /\ \A w \in WorkerIds : tret[w] # Nil

InCritical == {w \in WorkerIds : wpc[w] \in {"append", "unlock"}}

\* The workers whose error is due in the list: past the append.
Appended ==
    {w \in WorkerIds : werr[w] # Nil /\ wpc[w] \in {"unlock", "done", "release", "exit"}}

\* C27: in PullFeeds at most one worker is between mu.Lock and mu.Unlock and
\* it is the holder of the mutex; every change of the error list is the
\* append of one entry by that holder; the entries in the list are exactly
\* those of the workers that have appended; and while the dispatcher reads
\* the list to return it no worker is before or inside the append.
C27_ErrsOnlyUnderMutex ==
    /\ [](/\ Cardinality(InCritical) <= 1
          /\ \A w \in InCritical : mu = w
          /\ Len(errs) = Cardinality(Appended)
          /\ \A w \in Appended :
               \E i \in DOMAIN errs : errs[i] = [Feed |-> feeds[w], Err |-> werr[w]]
          /\ pc \in {"return", "returned"} =>
               \A w \in WorkerIds : wpc[w] \in {"release", "exit"})
    /\ [][errs' # errs =>
            \E w \in WorkerIds :
                /\ mu = w
                /\ wpc[w] = "append"
                /\ Len(errs') = Len(errs) + 1
                /\ \A i \in DOMAIN errs : errs'[i] = errs[i]]_vars

\* C27 witness: one worker holds the mutex with its entry appended, another
\* with an error of its own waits at mu.Lock, and the list already holds an
\* earlier entry.
C27_Witness ==
    /\ Len(errs) = 2
    /\ \E w \in WorkerIds : wpc[w] = "unlock" /\ mu = w
    /\ \E w \in WorkerIds : wpc[w] = "lock"

\* C29: in one pull every storage call comes after the return of that pull's
\* fetch: while the fetch has not returned the call log is empty, and a step
\* that adds a storage call leaves the fetch outcome as it was.
C29_FetchBeforePersist ==
    /\ [](\A t \in Tasks :
            /\ tlog[t] # <<>> => tread[t].called
            /\ tpc[t] \in {"store", "success"} => tread[t].called
            /\ tpc[t] \in {"get", "decide", "read"} => tlog[t] = <<>>)
    /\ [][\A t \in Tasks :
            Len(tlog'[t]) > Len(tlog[t]) =>
                (tread[t].called /\ tread'[t] = tread[t])]_vars

\* C29 witness: a pull whose fetch returned two items has inserted them and
\* is about to write the feed update.
C29_Witness ==
    \E t \in Tasks :
        /\ tpc[t] = "success"
        /\ tread[t].called
        /\ Len(tread[t].Items) = 2
        /\ Len(tlog[t]) = 1
        /\ tlog[t][1].op = "Insert"

\* The feed updates among the storage calls of the task's pull.
UpdatesOf(t) == {i \in DOMAIN tlog[t] : tlog[t][i].op = "Update"}

\* The Insert of the task's pull returned an error.
InsertErrored(t) ==
    \E i \in DOMAIN tlog[t] : tlog[t][i].op = "Insert" /\ tlog[t][i].ret # Nil

PairTasks == {"sweep", "refresh"}

\* The rows the two callers find: a feed with a link, not suspended, last
\* written an interval ago, with or without a failure recorded.
PairRows(id) ==
    {[ID |-> id, Link |-> "https://example.com/feed.xml", LastBuild |-> oldBuild,
      Failure |-> fl, Suspended |-> "false", UpdatedAt |-> 0] :
        fl \in {"", "dummy previous error"}}

InitPair ==
    /\ SchedIdle
    /\ AllIdle
    /\ feedStore \in [FeedIDs -> UNION {PairRows(id) : id \in FeedIDs}]
    /\ \A id \in FeedIDs : feedStore[id].ID = id
    /\ itemStore = {}
    /\ now = interval
    /\ tpc = [t \in PairTasks |-> "idle"]
    /\ targ = [t \in PairTasks |-> NoCall]
    /\ tfeed = [t \in PairTasks |-> NoFeed]
    /\ tread = [t \in PairTasks |-> NoRead]
    /\ tlog = [t \in PairTasks |-> <<>>]
    /\ tret = [t \in PairTasks |-> Nil]
    /\ tdec = [t \in PairTasks |-> NoDecision]
    /\ tctx = [t \in PairTasks |-> NoCtx]
    /\ cancelled = {}

\* server/feed.go:178: the context of the request, which ends when the
\* client goes away or the api timeout middleware ends it.
RequestContext == [deadline |-> NoDeadline, sources |-> {"request"}]

\* The moments the sweep whose worker calls do can have begun: now, or half
\* an interval ago, so that its context expires as do is called.
SweepStarts == {now, now - interval \div 2}

\* The context of the refresh request ends while PullOne runs.
CancelRequest ==
    /\ tpc["refresh"] \in {"get", "decide", "read", "store", "success"}
    /\ tctx["refresh"].caller = RequestContext
    /\ "request" \notin cancelled
    /\ cancelled' = cancelled \cup {"request"}
    /\ UNCHANGED <<schedVars, pullVars, allVars, tctx, runVars, confVars>>

NextPair ==
    \/ \E id \in FeedIDs, s \in SweepStarts :
         Do("sweep", id, FALSE, SweepContextSince(Background, s))
    \/ \E id \in FeedIDs :
         "request" \notin cancelled /\ PullOne("refresh", id, RequestContext)
    \/ \E id \in FeedIDs : Do("refresh", id, TRUE, SweepContext(Background))
    \/ CancelRequest
    \/ Tick
    \/ \E t \in PairTasks : Get(t)
    \/ \E t \in PairTasks : Decide(t)
    \/ \E t \in PairTasks : Read(t) /\ tread'[t] \in SweepOutcomes
    \/ \E t \in PairTasks : RecordFailure(t)
    \/ \E t \in PairTasks : InsertItems(t)
    \/ \E t \in PairTasks : RecordSuccess(t)

SpecPair == InitPair /\ [][NextPair]_vars

\* The tasks inside the fetch-then-persist cycle of feed id: past the
\* decision to fetch and not yet returned.
InCycle(id) ==
    {t \in DOMAIN tpc :
        tpc[t] \in {"read", "store", "success"} /\ tfeed[t].ID = id}

\* C28 as stated: at any moment at most one task is inside the
\* fetch-then-persist cycle of a given feed, also while a sweep of the Run
\* loop and an on-demand pull run side by side.
C28_OneTaskPerFeed ==
    \A id \in DOMAIN feedStore : Cardinality(InCycle(id)) <= 1

\* What C28 rules out, reached: the refresh recorded a successful pull of
\* the feed while the sweep's pull of the same feed was under way, and the
\* sweep then wrote its own fetch failure over it.
C28_Overwritten ==
    /\ tpc["sweep"] = "done"
    /\ tpc["refresh"] = "done"
    /\ FetchFailed("sweep")
    /\ FetchOK("refresh")
    /\ tret["refresh"] = Nil
    /\ tfeed["sweep"].Failure = ""
    /\ tfeed["refresh"].Failure = ""
    /\ feedStore[42].Failure = tread["sweep"].err
    /\ feedStore[42].LastBuild = newBuild

\* ------------------------------------------------------------ contexts: claims

\* The context of task t's fetch is done: its deadline has passed, a context
\* it descends from was cancelled, or do returned (defer cancel()).
FetchDone(t) ==
    \/ Sec(now) >= tctx[t].fetch.deadline
    \/ tctx[t].fetch.sources \cap cancelled # {}
    \/ tpc[t] = "done"

\* The context task t's caller passed is done.
CallerDone(t) ==
    \/ Sec(now) >= tctx[t].caller.deadline
    \/ tctx[t].caller.sources \cap cancelled # {}

\* Task t is inside do: Pull and the fetch get the context do derived.
InDo(t) == tpc[t] \in {"decide", "read", "store", "success"}

\* C22: the context given to a feed's fetch has its deadline no later than
\* 30 seconds after the pull began and no later than the caller's deadline,
\* it descends from the caller's context, and it is done whenever the
\* caller's context is done.
C22_FetchContextBounded ==
    /\ [](\A t \in DOMAIN tpc :
            InDo(t) =>
                /\ tctx[t].fetch.deadline <= Sec(now) + doTimeout
                /\ tctx[t].fetch.deadline <= tctx[t].caller.deadline
                /\ tctx[t].caller.sources \subseteq tctx[t].fetch.sources
                /\ CallerDone(t) => FetchDone(t))
    /\ [][\A t \in DOMAIN tpc :
            (tpc[t] # "decide" /\ tpc'[t] = "decide") =>
                /\ tctx'[t].fetch.deadline <= Sec(now) + doTimeout
                /\ tctx'[t].fetch.deadline < NoDeadline]_vars

\* C22 witness: a fetch is under way with the caller's deadline nearer than
\* 30 seconds, and one whose caller's context was cancelled.
C22_Witness ==
    /\ tpc["sweep"] = "read"
    /\ tctx["sweep"].fetch.deadline = tctx["sweep"].caller.deadline
    /\ tctx["sweep"].fetch.deadline < Sec(now) + doTimeout
    /\ tpc["refresh"] = "read"
    /\ "request" \in cancelled
    /\ targ["refresh"].entry = "PullOne"
    /\ tctx["refresh"].fetch.deadline < NoDeadline

\* ------------------------------------------------------------ a sweep against the clock

\* A sweep of the Run loop (force = false, every feed due and healthy) with
\* time passing while it runs, against servers that answer and a store whose
\* Insert and Update succeed, so that a timeout is the only failure. The
\* fetch is the only call that is given the sweep's context: List, Insert
\* and Update take none (pull.go:64, part_004:179-234), and PullFeeds neither
\* reads the context nor stops waiting for its workers when it ends
\* (pull.go:97-128).
InitTimed ==
    /\ InitAll
    /\ force = FALSE
    /\ \A id \in DOMAIN feedStore :
         feedStore[id].Failure = "" /\ feedStore[id].Suspended = "false"

\* The context of worker w's fetch has passed its deadline.
FetchExpired(w) == Sec(now) >= tctx[w].fetch.deadline

\* The deadline of the sweep has passed.
SweepExpired == Sec(now) >= actx.deadline

\* part_005:65-113: FetchItems sends the request with the context; once the
\* context has ended the request returns its error, before that the server
\* answers with a feed of one new item.
ReadTimed(w) ==
    /\ Read(w)
    /\ IF FetchExpired(w)
       THEN tread'[w].err = "context deadline exceeded"
       ELSE tread'[w] \in SweepOutcomes /\ tread'[w].err = Nil

\* Time passes, in steps of interval / 2, at any point of the sweep except
\* that a fetch returns when its context ends and not later.
TickTimed ==
    /\ now < interval + MaxTicks * (interval \div 2)
    /\ \A w \in DOMAIN tpc : tpc[w] = "read" => ~FetchExpired(w)
    /\ now' = now + interval \div 2
    /\ UNCHANGED <<schedVars, allVars, ctxVars, runVars, feedStore, itemStore, tpc, targ,
                   tfeed, tread, tlog, tret, tdec, confVars>>

NextTimed ==
    \/ ListFeeds
    \/ Start
    \/ Dispatch
    \/ LoopExit
    \/ Wait
    \/ Return
    \/ \E w \in WorkerIds : WorkerCallDo(w)
    \/ \E w \in WorkerIds : Decide(w)
    \/ \E w \in WorkerIds : ReadTimed(w)
    \/ \E w \in WorkerIds : RecordFailure(w) /\ tret'[w] = Nil
    \/ \E w \in WorkerIds : InsertItems(w) /\ tret'[w] = Nil
    \/ \E w \in WorkerIds : RecordSuccess(w) /\ tret'[w] = Nil
    \/ \E w \in WorkerIds : WorkerReturnDo(w)
    \/ \E w \in WorkerIds : WorkerDone(w)
    \/ \E w \in WorkerIds : WorkerRelease(w)
    \/ SweepReturn
    \/ TickTimed

SpecTimed == InitTimed /\ [][NextTimed]_vars

\* C21 as stated: a PullAll that has not returned is within interval / 2 of
\* its start, whatever the number of feeds and the duration of the fetches.
C21_SweepWithinHalfInterval ==
    apc \in {"list", "pull"} => Sec(now) <= actx.deadline

\* What C21 rules out, reached: every fetch of the sweep ended by the
\* deadline, and PullAll is still running after it, a worker being inside the
\* Update that records its feed's outcome.
C21_Overrun ==
    /\ apc = "pull"
    /\ Sec(now) > actx.deadline
    /\ \E w \in WorkerIds : tpc[w] = "store" /\ tread[w].called
    /\ \A w \in WorkerIds : tpc[w] # "read"

\* The outcome worker w recorded for its feed: the Update of its pull.
Recorded(w) == {tlog[w][i] : i \in UpdatesOf(w)}

\* C26: in a sweep, a feed's row is written only by the Update of that
\* feed's own pull, once; items are only added; and a row whose pull has
\* recorded its outcome keeps it as written, also after the contexts of
\* sibling feeds or of the whole sweep have expired.
C26_WrittenOutcomesKept ==
    /\ [](\A w \in DOMAIN tpc :
            /\ Cardinality(UpdatesOf(w)) <= 1
            /\ \A u \in Recorded(w) :
                 /\ u.id = feeds[w]
                 /\ feedStore[feeds[w]].Failure = u.Failure
                 /\ u.Failure = "" => feedStore[feeds[w]].LastBuild = u.LastBuild
            /\ UpdatesOf(w) = {} => feedStore[feeds[w]] = tfeed[w])
    /\ [][/\ itemStore \subseteq itemStore'
          /\ \A id \in DOMAIN feedStore :
               feedStore'[id] # feedStore[id] =>
                   \E w \in DOMAIN tpc :
                       /\ feeds[w] = id
                       /\ tpc[w] \in {"store", "success"}
                       /\ tpc'[w] = "done"
                       /\ UpdatesOf(w) = {}]_vars

\* C26 witness: the sweep's deadline has passed; one feed's success was
\* written before it, a sibling's fetch then ended with the context's error
\* and its failure was written, and the first feed's row and item are as
\* they were written.
C26_Witness ==
    /\ SweepExpired
    /\ Len(feeds) >= 2
    /\ tpc[1] = "done"
    /\ FetchOK(1)
    /\ feedStore[1].UpdatedAt < now
    /\ feedStore[1].Failure = ""
    /\ feedStore[1].LastBuild = newBuild
    /\ \E it \in itemStore : it.FeedID = 1
    /\ tpc[2] = "done"
    /\ tread[2].err = "context deadline exceeded"
    /\ feedStore[2].Failure = "context deadline exceeded"
    /\ feedStore[2].UpdatedAt = now

\* ------------------------------------------------------------ Run

\* Run (pull.go:49-58): ticker := time.NewTicker(interval), then for ever
\* p.PullAll(context.Background(), false) followed by <-ticker.C. The sweep
\* is taken here by its start and its return: what happens in between is
\* SpecAll and SpecTimed. The ticker fires on its own, whatever Run is doing.
\* The outcome of a PullAll call that has not returned.
Running == [list |-> "running", failed |-> 0, ret |-> Nil]

\* The outcomes of a PullAll call: what List returned and how many per-feed
\* pulls returned an error.
SweepEnds ==
    {[list |-> r, failed |-> k, ret |-> ListError(r)] :
        r \in {Nil, dbError, notFound}, k \in 0..MaxListed}
    \ {[list |-> r, failed |-> k, ret |-> ListError(r)] :
        r \in {dbError, notFound}, k \in 1..MaxListed}

\* The PullAll calls of Run that have not returned.
InProgress == {i \in DOMAIN rsweeps : rsweeps[i].out = Running}

InitRun ==
    /\ SchedIdle
    /\ PullIdle
    /\ ConfIdle
    /\ SweepIdle
    /\ rpc = "start"
    /\ tickerC = <<>>
    /\ fires = 0
    /\ rsweeps = <<>>

\* pull.go:54: p.PullAll(...) is a plain call: Run is inside it until it
\* returns.
AfterCallAsync == "wait"
AfterCall == "sweep"

\* pull.go:54-56: the result of PullAll is dropped and Run goes on to
\* <-ticker.C whatever it was.
AfterSweepOnce(o) == "exited"
AfterSweepStopOnError(o) ==
    IF o.ret # Nil \/ o.failed > 0 THEN "exited" ELSE "wait"
AfterSweep(o) == "wait"

\* time.NewTicker: the channel holds one tick; a tick that finds it full is
\* dropped.
TickerSendQueued(c, k) == Append(c, k)
TickerSend(c, k) == IF Len(c) < 1 THEN Append(c, k) ELSE c

\* Run calls PullAll; tick is the tick the call follows, 0 for none.
CallPullAll(tick) ==
    /\ Len(rsweeps) < MaxSweeps
    /\ rsweeps' = Append(rsweeps, [tick |-> tick, fs |-> fires, fe |-> fires,
                                   out |-> Running])
    /\ rpc' = AfterCall

\* The first iteration: PullAll is called before any receive.
RunStart ==
    /\ rpc = "start"
    /\ CallPullAll(0)
    /\ UNCHANGED <<schedVars, pullVars, allVars, ctxVars, tickerC, fires, confVars>>

\* PullAll returns.
SweepEnd ==
    /\ \E i \in InProgress, o \in SweepEnds :
        /\ rsweeps' = [rsweeps EXCEPT ![i].out = o, ![i].fe = fires]
        /\ rpc' = IF rpc = "sweep" THEN AfterSweep(o) ELSE rpc
    /\ UNCHANGED <<schedVars, pullVars, allVars, ctxVars, tickerC, fires, confVars>>

\* <-ticker.C receives a tick and the loop calls PullAll again.
Receive ==
    /\ rpc = "wait"
    /\ tickerC # <<>>
    /\ tickerC' = Tail(tickerC)
    /\ CallPullAll(Head(tickerC))
    /\ UNCHANGED <<schedVars, pullVars, allVars, ctxVars, fires, confVars>>

\* The ticker fires: an interval has passed since the last time.
TickerFire ==
    /\ fires < MaxFires
    /\ fires' = fires + 1
    /\ tickerC' = TickerSend(tickerC, fires + 1)
    /\ UNCHANGED <<schedVars, pullVars, allVars, ctxVars, rpc, rsweeps, confVars>>

NextRun ==
    \/ RunStart
    \/ SweepEnd
    \/ Receive
    \/ TickerFire

SpecRun == InitRun /\ [][NextRun]_vars

\* Run's goroutine keeps being scheduled, the runtime's timer keeps firing
\* and a PullAll that was called returns.
SpecRunFair ==
    /\ SpecRun
    /\ WF_vars(RunStart)
    /\ WF_vars(SweepEnd)
    /\ WF_vars(Receive)
    /\ WF_vars(TickerFire)

\* C23: Run never has two sweeps in progress: it is inside PullAll exactly
\* while its one call has not returned, and it calls PullAll only when every
\* earlier call has returned.
C23_OneSweepAtATime ==
    /\ [](/\ Cardinality(InProgress) <= 1
          /\ rpc = "sweep" <=> InProgress # {}
          /\ InProgress \subseteq {Len(rsweeps)})
    /\ [][Len(rsweeps') > Len(rsweeps) => InProgress = {}]_vars

\* C23 witness: the second sweep is in progress after the first returned,
\* with a tick waiting that fired while it runs.
C23_Witness ==
    /\ Len(rsweeps) = 2
    /\ rsweeps[1].out # Running
    /\ rsweeps[2].out = Running
    /\ fires > rsweeps[2].fs
    /\ tickerC # <<>>

\* The ticks that fired while sweep i was in progress.
FiredDuring(i) == (rsweeps[i].fs + 1)..rsweeps[i].fe

\* The sweeps started by one of the ticks in ks.
StartedBy(ks) == {j \in DOMAIN rsweeps : rsweeps[j].tick \in ks}

\* C24: the first sweep follows no tick, every later sweep follows a tick of
\* its own that had fired before it started, a later one than the sweep
\* before; the channel never holds more than one tick, and of the ticks that
\* fired during one sweep at most one starts a sweep.
C24_SweepsFollowTicks ==
    /\ [](/\ rpc = "start" <=> rsweeps = <<>>
          /\ Len(tickerC) <= 1
          /\ \A j \in DOMAIN rsweeps :
               /\ j = 1 => rsweeps[j].tick = 0
               /\ j > 1 =>
                    /\ rsweeps[j].tick \in 1..rsweeps[j].fs
                    /\ rsweeps[j].tick > rsweeps[j - 1].tick
               /\ Cardinality(StartedBy(FiredDuring(j))) <= 1)
    /\ [][rpc = "start" => rpc' # "wait"]_vars

\* C24 witness: two ticks fired during the first sweep; the second sweep
\* followed the first of them at once, and the third sweep a tick that
\* fired after the first sweep had returned.
C24_Witness ==
    /\ Len(rsweeps) = 3
    /\ rsweeps[1].fe - rsweeps[1].fs >= 2
    /\ rsweeps[2].tick = rsweeps[1].fs + 1
    /\ rsweeps[2].fs = rsweeps[1].fe
    /\ rsweeps[3].tick > rsweeps[1].fe

\* Sweep i returned an error of List, or per-feed pulls of it failed.
SweepFailed(i) ==
    /\ rsweeps[i].out # Running
    /\ rsweeps[i].out.ret # Nil \/ rsweeps[i].out.failed > 0

\* C25: Run never exits; whatever a sweep's outcome, Run goes on to wait for
\* the ticker, and after a failed sweep the next one is started once a tick
\* is there.
C25_RunSurvivesSweeps ==
    /\ [](rpc # "exited")
    /\ [][\A i \in InProgress : rsweeps'[i].out # Running => rpc' = "wait"]_vars
    /\ \A k \in 1..(MaxSweeps - 1) :
         (Len(rsweeps) = k /\ SweepFailed(k)
            /\ (tickerC # <<>> \/ fires < MaxFires))
         ~> (Len(rsweeps) > k)

\* C25 witness: a sweep whose List failed and one with failed feeds are
\* behind, and the sweep after them is in progress.
C25_Witness ==
    /\ Len(rsweeps) = 3
    /\ rsweeps[1].out # Running
    /\ rsweeps[1].out.ret = dbError
    /\ rsweeps[2].out # Running
    /\ rsweeps[2].out.failed > 0
    /\ rsweeps[3].out = Running

\* ------------------------------------------------------------ skips and the schedule: claims

\* do took its skip branch: the decision's reason is the suspension, or the
\* call is unforced and the decision is to skip.
DoSkipped(t) ==
    /\ Decided(t)
    /\ \/ tdec[t][2] = SkipReasonSuspended
       \/ ~targ[t].force /\ tdec[t][1] = ActionSkipUpdate

\* The call c, appended to t's log, is the record-failure or record-success
\* Update of t's feed.
IsOutcomeWrite(t, c) ==
    /\ c.op = "Update"
    /\ c.id = tfeed[t].ID
    /\ \/ tread[t].err # Nil /\ c.Failure = tread[t].err /\ c.LastBuild = NULL
       \/ tread[t].err = Nil /\ IsSuccessUpdate(t, c)

\* C31: a pull that decided to skip has returned nil with no fetch and no
\* storage call; the step that skips leaves the feed rows and the items as
\* they are; and the feed rows change only by a record-failure or
\* record-success Update of a pull that fetched.
C31_SkipTouchesNothing ==
    /\ [](\A t \in Tasks :
            DoSkipped(t) =>
                /\ Returned(t)
                /\ ~tread[t].called
                /\ tlog[t] = <<>>
                /\ tret[t] = Nil)
    /\ [][/\ \A t \in Tasks :
               (tpc[t] = "decide" /\ tpc'[t] = "done") =>
                   /\ feedStore' = feedStore
                   /\ itemStore' = itemStore
          /\ feedStore' # feedStore =>
               \E t \in Tasks :
                   /\ tread[t].called
                   /\ Len(tlog'[t]) = Len(tlog[t]) + 1
                   /\ IsOutcomeWrite(t, tlog'[t][Len(tlog'[t])])]_vars

\* C31 witness: an unforced pull of a failed feed was skipped and the row is
\* as the pull found it.
C31_Witness ==
    \E t \in Tasks :
        /\ DoSkipped(t)
        /\ ~targ[t].force
        /\ tdec[t][2] = SkipReasonLastUpdateFailed
        /\ Returned(t)
        /\ feedStore[tfeed[t].ID] = tfeed[t]

StoredFailed(id) ==
    /\ feedStore[id].Failure \notin {NULL, ""}
    /\ feedStore[id].Suspended # "true"

\* C33: while a feed's stored row is failed and not suspended, an unforced
\* pull of it, however late, goes from the decision to the return without a
\* fetch; and the row's failure changes only by a step of a forced pull.
C33_FailedStaysFailedUnforced ==
    /\ [](\A t \in Tasks :
            (~targ[t].force /\ FailureSet(t) /\ ~SuspendedSet(t)) =>
                /\ tpc[t] \in {"decide", "done"}
                /\ ~tread[t].called
                /\ tlog[t] = <<>>)
    /\ [][\A id \in DOMAIN feedStore :
            StoredFailed(id) =>
                /\ \A t \in Tasks :
                     (tpc[t] = "decide" /\ tfeed[t].ID = id /\ ~targ[t].force) =>
                         tpc'[t] # "read"
                /\ feedStore'[id].Failure # feedStore[id].Failure =>
                     \E t \in Tasks :
                         /\ targ[t].force
                         /\ tfeed[t].ID = id
                         /\ tpc'[t] # tpc[t]]_vars

\* C33 witness: an interval and more after the row was last written, an
\* unforced pull of the failed feed returned at the skip and the failure is
\* still the stored one.
C33_Witness ==
    \E t \in Tasks :
        /\ ~targ[t].force
        /\ FailureSet(t)
        /\ ~SuspendedSet(t)
        /\ Skipped(t)
        /\ now - tfeed[t].UpdatedAt > interval
        /\ StoredFailed(tfeed[t].ID)
        /\ feedStore[tfeed[t].ID].Failure = tfeed[t].Failure

\* Task t's forced pull of a failed, not suspended feed has returned.
ForcedOnFailed(t) ==
    /\ targ[t].force
    /\ FailureSet(t)
    /\ ~SuspendedSet(t)
    /\ Returned(t)

\* C34: a forced pull of a failed, not suspended feed fetches; when the
\* fetch and the storage calls succeeded the stored failure is "", and the
\* unforced decision on that row is to fetch at every time that is an
\* interval or more after the write.
C34_ForcedPullReschedules ==
    \A t \in Tasks :
        ForcedOnFailed(t) =>
            /\ tread[t].called
            /\ (FetchOK(t) /\ ~StorageFailed(t)) =>
                 LET row == feedStore[tfeed[t].ID]
                 IN  /\ row.Failure = ""
                     /\ row.UpdatedAt >= tfeed[t].UpdatedAt
                     /\ \A k \in 0..MaxTicks :
                          LET at == row.UpdatedAt + interval + k * (interval \div 2)
                          IN  /\ DecideFeedUpdateAction(row, at)
                                    = <<ActionFetchUpdate, NULL>>
                              /\ DoFetches(row, FALSE, at)
                     /\ now - row.UpdatedAt >= interval =>
                          DoFetches(row, FALSE, now)

\* C34 witness: the forced pull of a failed feed succeeded, and an interval
\* has passed since its write.
C34_Witness ==
    \E t \in Tasks :
        /\ ForcedOnFailed(t)
        /\ FetchOK(t)
        /\ ~StorageFailed(t)
        /\ feedStore[tfeed[t].ID].UpdatedAt > 0
        /\ now - feedStore[tfeed[t].ID].UpdatedAt >= interval

\* ------------------------------------------------------------ Run with its sweeps

\* Run with every sweep carried out: each PullAll lists the one feed of the
\* store and pulls it through PullFeeds and p.do, against the clock. Every
\* fetch and every storage call returns without an error, so the fetch ends
\* within its context's deadline. The ticker fires each time an interval has
\* passed since Run began.
LoopFeed == 1

InitLoop ==
    /\ SchedIdle
    /\ ConfIdle
    /\ SweepIdle
    /\ feedStore = [id \in {LoopFeed} |->
                      [ID |-> id, Link |-> "https://example.com/feed.xml",
                       LastBuild |-> oldBuild, Failure |-> "",
                       Suspended |-> "false", UpdatedAt |-> 0]]
    /\ itemStore = {}
    /\ now = interval
    /\ tpc = <<>>
    /\ targ = <<>>
    /\ tfeed = <<>>
    /\ tread = <<>>
    /\ tlog = <<>>
    /\ tret = <<>>
    /\ tdec = <<>>
    /\ tctx = <<>>
    /\ cancelled = {}
    /\ rpc = "start"
    /\ tickerC = <<>>
    /\ fires = 0
    /\ rsweeps = <<>>

\* pull.go:54: Run calls p.PullAll(context.Background(), false): a new
\* sweep with a context of its own begins. The goroutines of the batch
\* before have nothing left but giving back their slot.
LoopCall(tick) ==
    /\ CallPullAll(tick)
    /\ force' = FALSE
    /\ apc' = "list"
    /\ actx' = SweepContext(Background)
    /\ alist' = NoList
    /\ aret' = Nil
    /\ cancelled' = cancelled \ {"PullAll"}
    /\ feeds' = <<>>
    /\ maxWorkers' = 0
    /\ pc' = "idle"
    /\ idx' = 1
    /\ poolCap' = 0
    /\ poolLen' = 0
    /\ poolClosed' = FALSE
    /\ wg' = 0
    /\ mu' = 0
    /\ errs' = <<>>
    /\ result' = <<>>
    /\ wpc' = <<>>
    /\ werr' = <<>>
    /\ calls' = <<>>
    /\ tpc' = <<>>
    /\ targ' = <<>>
    /\ tfeed' = <<>>
    /\ tread' = <<>>
    /\ tlog' = <<>>
    /\ tret' = <<>>
    /\ tdec' = <<>>
    /\ tctx' = <<>>
    /\ UNCHANGED <<pullFeed, feedStore, itemStore, now, fires, confVars>>

\* The first iteration of Run.
LoopStart ==
    /\ rpc = "start"
    /\ LoopCall(0)
    /\ tickerC' = tickerC

\* <-ticker.C receives a tick and the loop calls PullAll again.
LoopReceive ==
    /\ rpc = "wait"
    /\ tickerC # <<>>
    /\ tickerC' = Tail(tickerC)
    /\ LoopCall(Head(tickerC))

\* PullAll has returned to Run, which drops the result.
LoopReturn ==
    /\ rpc = "sweep"
    /\ apc = "returned"
    /\ LET o == [list |-> alist.err, failed |-> Len(result), ret |-> aret]
       IN  /\ rsweeps' = [rsweeps EXCEPT ![Len(rsweeps)].out = o,
                                         ![Len(rsweeps)].fe = fires]
           /\ rpc' = AfterSweep(o)
    /\ apc' = "idle"
    /\ UNCHANGED <<schedVars, pullVars, ctxVars, actx, alist, aret, tickerC,
                   fires, confVars>>

\* Half an interval passes, at any point except during a fetch that would
\* outlive its context; when a whole interval has passed since Run began
\* the ticker fires.
ClockTick ==
    /\ now + interval \div 2 <= interval + MaxFires * interval
    /\ \A w \in DOMAIN tpc :
         tpc[w] = "read" => Sec(now + interval \div 2) < tctx[w].fetch.deadline
    /\ now' = now + interval \div 2
    /\ IF (now' - interval) % interval = 0
       THEN /\ fires' = fires + 1
            /\ tickerC' = TickerSend(tickerC, fires + 1)
       ELSE UNCHANGED <<fires, tickerC, confVars>>
    /\ UNCHANGED <<schedVars, allVars, ctxVars, feedStore, itemStore, tpc, targ,
                   tfeed, tread, tlog, tret, tdec, rpc, rsweeps, confVars>>

\* A fetch that returns a feed of one new item.
ReadOK(w) == Read(w) /\ tread'[w] \in SweepOutcomes /\ tread'[w].err = Nil

NextLoop ==
    \/ LoopStart
    \/ LoopReceive
    \/ LoopReturn
    \/ ClockTick
    \/ ListFeeds /\ alist'.err = Nil
    \/ Start
    \/ Dispatch
    \/ LoopExit
    \/ Wait
    \/ Return
    \/ \E w \in WorkerIds : WorkerCallDo(w)
    \/ \E w \in WorkerIds : Decide(w)
    \/ \E w \in WorkerIds : ReadOK(w)
    \/ \E w \in WorkerIds : InsertItems(w) /\ tret'[w] = Nil
    \/ \E w \in WorkerIds : RecordSuccess(w) /\ tret'[w] = Nil
    \/ \E w \in WorkerIds : WorkerReturnDo(w)
    \/ \E w \in WorkerIds : WorkerDone(w)
    \/ \E w \in WorkerIds : WorkerRelease(w)
    \/ SweepReturn

SpecLoop == InitLoop /\ [][NextLoop]_vars

\* Every goroutine keeps being scheduled, every call returns and time
\* passes.
SpecLoopFair == SpecLoop /\ WF_vars(NextLoop)

\* The current sweep has fetched feed id and recorded the success.
FetchedNow(id) ==
    \E w \in DOMAIN tpc :
        /\ tfeed[w].ID = id
        /\ FetchOK(w)
        /\ tpc[w] = "done"

\* The current sweep is fetching or has fetched feed id.
FetchingNow(id) ==
    \E w \in DOMAIN tpc : tfeed[w].ID = id /\ tread[w].called

\* The model's bounds leave room for the sweeps and ticks that follow sweep
\* k: two of each, or three sweeps when a tick is already waiting.
Room(k) ==
    /\ fires + 2 <= MaxFires
    /\ \/ tickerC = <<>> /\ k + 2 <= MaxSweeps
       \/ k + 3 <= MaxSweeps

\* C35: under Run, with every fetch and storage call returning without
\* error, a sweep that fetched a healthy feed is followed by a later sweep
\* that fetches it again.
C35_HealthyFeedFetchedAgain ==
    \A k \in 1..MaxSweeps :
        (Len(rsweeps) = k /\ FetchedNow(LoopFeed) /\ Room(k))
        ~> (Len(rsweeps) > k /\ FetchingNow(LoopFeed))

\* C35 witness: the first sweep fetched the feed and wrote it half an
\* interval after it began, the second sweep found it updated too recently,
\* and the third sweep is fetching it.
C35_Witness ==
    /\ Len(rsweeps) = 3
    /\ FetchingNow(LoopFeed)
    /\ \E w \in DOMAIN tpc :
        /\ tfeed[w].UpdatedAt = interval + interval \div 2
        /\ tdec[w] = <<ActionFetchUpdate, NULL>>

\* ------------------------------------------------------------ a sweep whose context ends

\* The sweep of SpecTimed up to the moment its context ends, with an Update
\* that can fail when it records a failure: the workers then report the
\* storage error through the error list of PullFeeds.
NextExpired ==
    \/ ListFeeds
    \/ Start
    \/ Dispatch
    \/ LoopExit
    \/ Wait
    \/ Return
    \/ \E w \in WorkerIds : WorkerCallDo(w)
    \/ \E w \in WorkerIds : Decide(w)
    \/ \E w \in WorkerIds : ReadTimed(w)
    \/ \E w \in WorkerIds : RecordFailure(w)
    \/ \E w \in WorkerIds : InsertItems(w) /\ tret'[w] = Nil
    \/ \E w \in WorkerIds : RecordSuccess(w) /\ tret'[w] = Nil
    \/ \E w \in WorkerIds : WorkerReturnDo(w)
    \/ \E w \in WorkerIds : WorkerLock(w)
    \/ \E w \in WorkerIds : WorkerAppend(w)
    \/ \E w \in WorkerIds : WorkerUnlock(w)
    \/ \E w \in WorkerIds : WorkerDone(w)
    \/ \E w \in WorkerIds : WorkerRelease(w)
    \/ SweepReturn
    \/ TickTimed /\ ~SweepExpired

SpecExpired == InitTimed /\ [][NextExpired]_vars

\* The fetch of worker w's pull ended with the context's error.
ContextFailed(w) ==
    tread[w].called /\ tread[w].err = "context deadline exceeded"

Holding == {w \in WorkerIds : wpc[w] \notin {"idle", "exit"}}

\* C37: when every pullFeed call returns, PullFeeds returns and every worker
\* goroutine ends, for every number of feeds and every maxWorkers; the
\* channel holds one value per dispatched worker that has not yet received,
\* never more than its capacity, so a worker's receive always finds a value;
\* and no value is sent once the channel is closed.
C37_PullFeedsTerminates ==
    /\ <>(pc = "returned" /\ \A w \in WorkerIds : wpc[w] = "exit")
    /\ [](/\ poolLen = Cardinality(Holding)
          /\ pc # "start" => (poolCap >= 1 /\ poolLen <= poolCap)
          /\ poolClosed => (pc = "returned" /\ idx = Len(feeds) + 1)
          /\ \A w \in WorkerIds : wpc[w] = "release" => ENABLED WorkerRelease(w))
    /\ [][poolLen' > poolLen => ~poolClosed /\ ~poolClosed']_vars

\* C37 witness: PullFeeds has returned and closed the channel after
\* dispatching more feeds than it had slots, its maxWorkers having been
\* non-positive, and a worker that passed wg.Done() has not yet received.
C37_Witness ==
    /\ pc = "returned"
    /\ poolClosed
    /\ maxWorkers <= 0
    /\ Len(feeds) > poolCap
    /\ \E w \in WorkerIds : wpc[w] = "release"

\* C37 witness for the empty batch: PullFeeds has returned on no feeds.
C37_WitnessEmpty ==
    /\ pc = "returned"
    /\ feeds = <<>>
    /\ result = <<>>

\* ------------------------------------------------------------ a feed without a link

\* C38 as stated: a pull of a feed whose Link is nil that reaches the fetch
\* goes on to a return value: the task is never stopped by a panic.
C38_NullLinkPullCompletes ==
    \A t \in DOMAIN tpc :
        (tpc[t] # "idle" /\ tfeed[t].Link = NULL) => tpc[t] # "panic"

\* C38 in the code: the pull of a stored, non-suspended feed whose Link is
\* nil got past the decision, panicked on *feed.Link before readFeed was
\* called, and has made no storage call and returned nothing.
C38_Crashed ==
    \E t \in DOMAIN tpc :
        /\ tpc[t] = "panic"
        /\ tfeed[t].Link = NULL
        /\ tfeed[t] = feedStore[tfeed[t].ID]
        /\ tdec[t] # NoDecision
        /\ ~tread[t].called
        /\ tlog[t] = <<>>
        /\ tret[t] = Nil

\* ------------------------------------------------------------ a failed insert

\* C39: when the fetch succeeded with items and the Insert returned an
\* error, the pull makes no feed update: the Insert is its only storage
\* call, the feed's stored failure, lastBuild and updatedAt are those of
\* the row the pull started from, and Pull returns the Insert's error.
C39_InsertErrorSkipsUpdate ==
    \A t \in Tasks :
        (FetchOK(t) /\ HasItems(tread[t].Items) /\ InsertErrored(t)) =>
            /\ tpc[t] = "done"
            /\ UpdatesOf(t) = {}
            /\ Len(tlog[t]) = 1
            /\ feedStore[tfeed[t].ID].Failure = tfeed[t].Failure
            /\ feedStore[tfeed[t].ID].LastBuild = tfeed[t].LastBuild
            /\ feedStore[tfeed[t].ID].UpdatedAt = tfeed[t].UpdatedAt
            /\ tret[t] = tlog[t][1].ret
            /\ tret[t] # Nil

\* C39 witness: a forced pull of a feed with a failure recorded fetched
\* one item and a new lastBuild some time after the row's last write; the
\* Insert failed, Pull returned the database error, and the row still has
\* its old failure, lastBuild and updatedAt.
C39_Witness ==
    \E t \in Tasks :
        /\ Returned(t)
        /\ FetchOK(t)
        /\ Len(tread[t].Items) = 1
        /\ tread[t].LastBuild = newBuild
        /\ InsertErrored(t)
        /\ tret[t] = dbError
        /\ feedStore[42].Failure = "got status code 404"
        /\ feedStore[42].LastBuild = oldBuild
        /\ feedStore[42].UpdatedAt < now
        /\ itemStore = {}

\* ------------------------------------------------------------ conf.Load

\* conf.go:28: what godotenv.Load finds at ".env": no file, a file that
\* cannot be read, or the variables a file sets. A variable the process
\* environment already has is not overridden by the file.
DotEnvFiles ==
    {NoEnv,
     [NoEnv EXCEPT !["PASSWORD"] = "secret"],
     [NoEnv EXCEPT !["SECURE_COOKIE"] = "true"]}
Overlay(e, file) ==
    [k \in EnvNames |-> IF e[k] # Unset THEN e[k] ELSE file[k]]

\* conf.go:17-24, env.Parse: a variable that is not set takes its envDefault,
\* or the zero value when the field has none.
Lookup(e, k, default) == IF e[k] = Unset THEN default ELSE e[k]

\* env.Parse on a bool field: strconv.ParseBool.
BoolTrue == {"1", "t", "T", "TRUE", "true", "True"}
BoolFalse == {"0", "f", "F", "FALSE", "false", "False"}
ParseBoolOK(v) == v \in BoolTrue \cup BoolFalse
ParseBool(v) == v \in BoolTrue

\* conf.go:36-41: Conf{Debug: false} filled by env.Parse.
Parsed(e) ==
    [Debug |-> FALSE,
     Host |-> Lookup(e, "HOST", "0.0.0.0"),
     Password |-> Lookup(e, "PASSWORD", ""),
     SecureCookie |-> ParseBool(Lookup(e, "SECURE_COOKIE", "false")),
     TLSCert |-> Lookup(e, "TLS_CERT", ""),
     TLSKey |-> Lookup(e, "TLS_KEY", "")]

\* conf.go:51-64: the error validate returns.
validate(c) ==
    IF c.Password = "" THEN "password is required"
    ELSE IF (c.TLSCert = "") # (c.TLSKey = "")
         THEN "missing TLS cert or key file"
         ELSE Nil

\* conf.go:59-61: the assignment validate makes to its parameter.
ValidateLocal(c) ==
    IF validate(c) = Nil /\ c.TLSCert # ""
    THEN [c EXCEPT !.SecureCookie = TRUE]
    ELSE c

\* conf.go:42,51: validate(conf Conf) receives a copy; the variable conf of
\* Load is what it was before the call.
AfterValidate(c, local) == c

\* The environments Load is started in.
Environments ==
    {e \in [EnvNames -> {Unset, "", "127.0.0.1", "secret", "true", "false",
                         "1", "yes", "cert.pem", "key.pem"}] :
        /\ e["HOST"] \in {Unset, "127.0.0.1"}
        /\ e["PASSWORD"] \in {Unset, "", "secret"}
        /\ e["SECURE_COOKIE"] \in {Unset, "true", "false", "1", "yes"}
        /\ e["TLS_CERT"] \in {Unset, "cert.pem"}
        /\ e["TLS_KEY"] \in {Unset, "key.pem"}}

InitConf ==
    /\ SchedIdle
    /\ PullIdle
    /\ SweepIdle
    /\ RunIdle
    /\ environ \in Environments
    /\ lpc = "start"
    /\ conf = NoConf
    /\ vconf = NoConf
    /\ verr = Nil
    /\ cret = NoConf

\* conf.go:28-35: godotenv.Load; an error other than a missing file panics.
LoadDotEnv ==
    /\ lpc = "start"
    /\ \/ /\ lpc' = "panic"
          /\ environ' = environ
       \/ /\ lpc' = "parse"
          /\ \E file \in DotEnvFiles : environ' = Overlay(environ, file)
    /\ UNCHANGED <<schedVars, pullVars, allVars, ctxVars, runVars, conf,
                   vconf, verr, cret>>

\* conf.go:36-41: env.Parse(&conf); a value that does not parse panics.
ParseEnv ==
    /\ lpc = "parse"
    /\ IF ParseBoolOK(Lookup(environ, "SECURE_COOKIE", "false"))
       THEN /\ conf' = Parsed(environ)
            /\ lpc' = "validate"
       ELSE /\ conf' = conf
            /\ lpc' = "panic"
    /\ UNCHANGED <<schedVars, pullVars, allVars, ctxVars, runVars, environ,
                   vconf, verr, cret>>

\* conf.go:42-44: validate(conf); an error panics.
Validate ==
    /\ lpc = "validate"
    /\ vconf' = ValidateLocal(conf)
    /\ verr' = validate(conf)
    /\ conf' = AfterValidate(conf, vconf')
    /\ lpc' = IF verr' # Nil THEN "panic" ELSE "return"
    /\ UNCHANGED <<schedVars, pullVars, allVars, ctxVars, runVars, environ,
                   cret>>

\* conf.go:45-48: return conf (Debug is false, nothing is printed).
ReturnConf ==
    /\ lpc = "return"
    /\ cret' = conf
    /\ lpc' = "returned"
    /\ UNCHANGED <<schedVars, pullVars, allVars, ctxVars, runVars, environ,
                   conf, vconf, verr>>

NextConf ==
    \/ LoadDotEnv
    \/ ParseEnv
    \/ Validate
    \/ ReturnConf

SpecConf == InitConf /\ [][NextConf]_vars

\* Load was given both a TLS certificate and a TLS key.
TLSSet(c) == c.TLSCert # "" /\ c.TLSKey # ""

\* C40 as stated: the Conf value Load returns has SecureCookie = true when
\* the TLS certificate and key are set, whatever SECURE_COOKIE was; and a
\* configuration with exactly one of certificate and key, or with an empty
\* password, is rejected: Load panics on it and returns nothing.
C40_TLSForcesSecureCookie ==
    /\ lpc = "returned" =>
         /\ TLSSet(cret) => cret.SecureCookie
         /\ cret.Password # ""
         /\ (cret.TLSCert = "") = (cret.TLSKey = "")
    /\ (lpc \in {"return", "returned", "panic"} /\ verr = Nil
        /\ conf # NoConf) =>
         /\ conf.Password # ""
         /\ (conf.TLSCert = "") = (conf.TLSKey = "")

\* The validation half of C40, which the code does satisfy: validate
\* returns an error exactly when the password is empty or exactly one of
\* certificate and key is set, and Load then panics.
ValidationRejects ==
    lpc \in {"return", "returned", "panic"} /\ conf # NoConf =>
        /\ (verr # Nil) <=>
             \/ conf.Password = ""
             \/ conf.TLSCert = "" /\ conf.TLSKey # ""
             \/ conf.TLSCert # "" /\ conf.TLSKey = ""
        /\ verr # Nil => lpc = "panic"
        /\ verr = Nil => lpc # "panic"

\* C40 in the code: Load has returned a Conf with certificate and key set
\* and SecureCookie = false, SECURE_COOKIE being unset or false; validate
\* had set SecureCookie on its own copy only.
C40_CookieNotSecured ==
    /\ lpc = "returned"
    /\ TLSSet(cret)
    /\ Lookup(environ, "SECURE_COOKIE", "false") \in BoolFalse
    /\ vconf.SecureCookie
    /\ ~cret.SecureCookie

====
